---- MODULE Spec2Model ----
(***************************************************************************)
(* A model of the apyengine tree-walking evaluator (src/apyengine/asteval.py)*)
(* and of the host API of ApyEngine (src/apyengine/apyengine.py).           *)
(*                                                                         *)
(* The evaluator is modelled as the source computes it: run() with its     *)
(* stop/abort/fault/return/interrupt checks, one operator per on_xxx node  *)
(* handler, raise_exception with the fault list, and Procedure.__call__.   *)
(* A native (host-language) exception in flight is the field pyexc of the  *)
(* evaluator record; every handler stops at the first sub-step that leaves *)
(* pyexc set, as the Python call stack unwinds.                             *)
(***************************************************************************)
EXTENDS Integers, Sequences, FiniteSets, TLC

(***************************************************************************)
(* Bounds of the model.                                                    *)
(***************************************************************************)
\* loop iterations and procedure calls one eval() may spend before the
\* model gives the run up as non-terminating
MaxFuel == 4
\* host eval() calls in one behaviour
MaxEvals == 1
\* the signal arrives before one of the first MaxAbortAt + 1 run() calls
MaxAbortAt == 5
\* a call passes up to MaxPositionals positional arguments
MaxPositionals == 3

(***************************************************************************)
(* Values of the script language.                                          *)
(***************************************************************************)
IntV(n) == [t |-> "int", v |-> n]
NoneV == [t |-> "none"]
StrV(m) == [t |-> "str", v |-> m]
TupleV(seq) == [t |-> "tuple", v |-> seq]
ExcV(cls) == [t |-> "exc", cls |-> cls]
BoolV(b) == [t |-> "bool", v |-> b]
ListV(seq) == [t |-> "list", v |-> seq]
\* a host object with attributes (its attribute store is the field heap)
ObjV == [t |-> "obj"]
\* a host-registered command
HostV(name) == [t |-> "host", name |-> name]
\* what run() returns while a break/continue is pending: the ast node
InterruptV(kind) == [t |-> "astnode", v |-> kind]

\* the return slot: NoRet models Python's None ("no return happened yet")
NoRet == [t |-> "noret"]

Truthy(val) ==
    CASE val.t = "int" -> val.v # 0
      [] val.t = "none" -> FALSE
      [] val.t = "str" -> val.v # ""
      [] val.t = "tuple" -> Len(val.v) > 0
      [] val.t = "bool" -> val.v
      [] val.t = "list" -> Len(val.v) > 0
      [] OTHER -> TRUE

(***************************************************************************)
(* Names.  The last character of a name cannot be inspected by TLC, so the *)
(* names ending in `_` are listed.                                         *)
(***************************************************************************)
Names == {"x", "y", "m", "f", "e", "o", "pi", "cmd_", "tmp_", "errline_",
          "queue_open_", "queue_len_"}
UnderscoreNames == {"cmd_", "tmp_", "errline_", "queue_open_", "queue_len_"}
endswith_(name) == name \in UnderscoreNames

\* attribute names: those of dunder shape (__x__) are listed for the same
\* reason
Attrs == {"__class__", "__dict__", "__len__", "func_globals", "foo", "bar"}
DunderAttrs == {"__class__", "__dict__", "__len__"}
is_dunder(attr) == attr \in DunderAttrs

\* the explicit unsafe-attribute list of astutils.py
UNSAFE_ATTRS == {"__class__", "__dict__", "func_globals"}

\* astutils.valid_symbol_name: every name the parser delivers as an
\* identifier is a valid symbol name unless it is a reserved word
RESERVED_WORDS == {"print"}
valid_symbol_name(name) == name \notin RESERVED_WORDS

\* the builtin exception classes and Python's subclass relation on them
ExcClasses == {"Exception", "NameError", "ValueError", "KeyError",
               "TypeError", "AttributeError", "RuntimeError",
               "AssertionError", "SyntaxError", "NotImplementedError",
               "Warning"}
\* isinstance(cls(), htype)
isinstance_exc(cls, htype) == cls = htype \/ htype = "Exception"

(***************************************************************************)
(* The abstract syntax tree, as Python's ast module delivers it.  A node   *)
(* is a record with its kind k and its children; lbl names a statement in  *)
(* the execution log.                                                      *)
(***************************************************************************)
NoNode == [k |-> "nonode"]
Constant(v) == [k |-> "constant", value |-> v]
Name(id, ctx) == [k |-> "name", id |-> id, ctx |-> ctx]
Attribute(value, attr, ctx) ==
    [k |-> "attribute", value |-> value, attr |-> attr, ctx |-> ctx,
     lbl |-> "attribute"]
Tuple(elts, ctx) == [k |-> "tuple", elts |-> elts, ctx |-> ctx]
BinOp(left, right) == [k |-> "binop", left |-> left, right |-> right]
Assign(targets, value, lbl) ==
    [k |-> "assign", targets |-> targets, value |-> value, lbl |-> lbl]
AugAssign(target, value) ==
    [k |-> "augassign", target |-> target, value |-> value, lbl |-> ""]
Delete(targets) == [k |-> "delete", targets |-> targets, lbl |-> ""]
Expr(value) == [k |-> "expr", value |-> value, lbl |-> ""]
Pass(lbl) == [k |-> "pass", lbl |-> lbl]
Break == [k |-> "break", lbl |-> "break"]
Continue == [k |-> "continue", lbl |-> "continue"]
Return(value) == [k |-> "return", value |-> value, lbl |-> ""]
\* raise cls('...'): exc is the call that constructs the exception
Raise(cls) == [k |-> "raise", exc |-> cls, lbl |-> ""]
If(test, body, orelse) ==
    [k |-> "if", test |-> test, body |-> body, orelse |-> orelse, lbl |-> ""]
While(test, body, orelse) ==
    [k |-> "while", test |-> test, body |-> body, orelse |-> orelse,
     lbl |-> "loop"]
For(target, iter, body, orelse) ==
    [k |-> "for", target |-> target, iter |-> iter, body |-> body,
     orelse |-> orelse, lbl |-> "loop"]
\* type: the class name of `except type`, "None" for a bare except;
\* name: the `as` name, "None" when absent
ExceptHandler(type, name, body) ==
    [k |-> "excepthandler", type |-> type, name |-> name, body |-> body]
Try(body, handlers, orelse, finalbody) ==
    [k |-> "try", body |-> body, handlers |-> handlers, orelse |-> orelse,
     finalbody |-> finalbody, lbl |-> "try"]
\* args: the required parameter names; defaults: <<name, value node>> pairs
FunctionDef(name, args, defaults, vararg, kwarg, body) ==
    [k |-> "functiondef", name |-> name, args |-> args,
     defaults |-> defaults, vararg |-> vararg, kwarg |-> kwarg,
     body |-> body, lbl |-> ""]
\* keywords: <<name, value node>> pairs
Call(func, args, keywords) ==
    [k |-> "call", func |-> func, args |-> args, keywords |-> keywords,
     lbl |-> "call"]
Module(body) == [k |-> "module", body |-> body]
\* a node kind with no handler (import, lambda, class, with, ...)
Import == [k |-> "import", lbl |-> ""]
Compare(left, ops, comparators) ==
    [k |-> "compare", left |-> left, ops |-> ops, comparators |-> comparators]
comprehension(target, iter, ifs) ==
    [k |-> "comprehension", target |-> target, iter |-> iter, ifs |-> ifs]
ListComp(elt, generators) ==
    [k |-> "listcomp", elt |-> elt, generators |-> generators]

\* node.lineno: the modelled scripts are written on one line; a node that
\* a handler builds itself (on_augassign) has no lineno attribute
has_lineno(node) == "synthetic" \notin DOMAIN node
lineno_of(node) == 1
lbl_of(node) == IF "lbl" \in DOMAIN node THEN node.lbl ELSE ""

(***************************************************************************)
(* The evaluator record: the fields of Interpreter, the host object's      *)
(* attribute store, and the bookkeeping of one evaluation (val: the value  *)
(* the last run() returned; pyexc: the native exception in flight; log:    *)
(* the handlers dispatched and host calls made; fuel).                     *)
(***************************************************************************)
\* a log entry: kind e, a name a, a number n
Ev(kind, a, n) == [e |-> kind, a |-> a, n |-> n]
NoMsg == [text |-> "None", lines |-> <<>>]
Msg(text) == [text |-> text, lines |-> <<>>]

\* no native exception is in flight and the run has not been given up
ok(s) == s.pyexc = "None" /\ ~s.diverged
setval(s, v) == [s EXCEPT !.val = v]
logevn(s, kind, a, n) == [s EXCEPT !.log = Append(@, Ev(kind, a, n))]
logev(s, kind, a) == logevn(s, kind, a, 0)
\* a native exception raised by the host language itself
pyraise(s, cls) == [s EXCEPT !.pyexc = cls, !.val = NoneV]

\* symtable[name] = val, and del symtable[name]
symset(tab, name, val) ==
    [n \in DOMAIN tab \cup {name} |-> IF n = name THEN val ELSE tab[n]]
symdel(tab, name) == [n \in DOMAIN tab \ {name} |-> tab[n]]

\* astutils.ExceptionHolder: exc_info is sys.exc_info() at construction,
\* the native exception being handled (handling), "None" outside an except
\* block; a holder built without a class takes the handled one
ExceptionHolder(node, exc, msg, lineno, handling) ==
    [node |-> node.k,
     exc |-> IF exc = "None" THEN handling ELSE exc,
     msg |-> IF msg = "" /\ handling # "None" THEN Msg("<exception>")
             ELSE Msg(msg),
     lineno |-> lineno,
     exc_info |-> handling]

\* Interpreter.raise_exception .  handling is the native exception the
\* caller is handling when it calls (its except block), "None" otherwise.
raise_exception(s, node, exc, msg, lineno, handling) ==
    LET ln == IF node # NoNode /\ node.k # "module" THEN lineno_of(node)
              ELSE lineno
        err == ExceptionHolder(node, exc, msg, ln, handling)
        error1 == Append(s.error, err)
        msg0 == IF msg # "" THEN Msg(msg) ELSE s.error_msg
        withline == ln # 0 /\ msg # ""
        msg1 == IF withline THEN [msg0 EXCEPT !.lines = Append(@, ln)]
                ELSE msg0
        exc1 == IF exc = "None" THEN error1[1].exc ELSE exc
    IN  \* lineno = int(node.lineno)
        IF node # NoNode /\ node.k # "module" /\ ~has_lineno(node)
        THEN pyraise(s, "AttributeError")
        ELSE
        [s EXCEPT !.interrupt = "Raise",
                  !.error = [error1 EXCEPT ![1].msg = msg1],
                  !.error_msg = msg1,
                  \* history: the message with which the list's first
                  \* record was appended
                  !.first_msg = IF Len(s.error) = 0 THEN msg1 ELSE @,
                  !.symtable = IF withline
                               THEN symset(@, "errline_", IntV(ln))
                               ELSE @,
                  !.val = NoneV,
                  \* raise exc(msg); exc None is not callable
                  !.pyexc = IF exc1 = "None" THEN "TypeError" ELSE exc1]

(***************************************************************************)
(* The host language's attribute protocol on the modelled values.          *)
(***************************************************************************)
\* getattr(sym, attr): the host object keeps its attributes in heap;
\* every value has a __class__, the host object and a Procedure have a
\* __dict__; nothing else has attributes
getattr(s, sym, attr) ==
    LET s1 == logev(s, "getattr", attr)
    IN  IF sym.t = "obj" /\ attr \in DOMAIN s.heap
        THEN setval(s1, s.heap[attr])
        ELSE IF attr = "__class__" THEN setval(s1, StrV(sym.t))
        ELSE IF attr = "__dict__" /\ sym.t \in {"obj", "proc"}
        THEN setval(s1, StrV("__dict__"))
        ELSE pyraise(s1, "AttributeError")

\* Procedure.__setattr__: the test reads the attribute `__init__`, which is
\* the bound method and true, so raise_exc is not called and the value goes
\* into the instance's __dict__.  The Procedure is an object: every table
\* entry that refers to it shows the new field.  An attribute that is not
\* one of the fields of the record is stored as well and read by nothing.
procedure_setattr(s, proc, attr, val) ==
    LET stored == CASE attr = "name" -> [proc EXCEPT !.name = val]
                    [] attr = "body" -> [proc EXCEPT !.body = val]
                    [] attr = "argnames" -> [proc EXCEPT !.argnames = val]
                    [] attr = "kwargs" -> [proc EXCEPT !.kwargs = val]
                    [] attr = "vararg" -> [proc EXCEPT !.vararg = val]
                    [] attr = "varkws" -> [proc EXCEPT !.varkws = val]
                    [] OTHER -> proc
    IN  [s EXCEPT !.symtable =
                     [n \in DOMAIN @ |->
                         IF @[n].t = "proc" /\ @[n] = proc THEN stored
                         ELSE @[n]],
                  !.val = NoneV]

\* setattr(obj, attr, val): a Procedure has its own __setattr__; of the
\* other values only the host object takes attributes, and Python refuses
\* a __class__ that is not a class and a __dict__ that is not a dict
setattr(s, obj, attr, val) ==
    LET s1 == logev(s, "setattr", attr)
    IN  IF obj.t = "proc" THEN procedure_setattr(s1, obj, attr, val)
        ELSE IF attr = "__class__" THEN pyraise(s1, "TypeError")
        ELSE IF obj.t # "obj" THEN pyraise(s1, "AttributeError")
        ELSE IF attr = "__dict__" THEN pyraise(s1, "TypeError")
        ELSE [s1 EXCEPT !.heap = symset(@, attr, val), !.val = NoneV]

\* delattr(obj, attr)
delattr(s, obj, attr) ==
    IF obj.t = "obj" /\ attr \in DOMAIN s.heap
    THEN [s EXCEPT !.heap = symdel(@, attr), !.val = NoneV]
    ELSE pyraise(s, "AttributeError")

(***************************************************************************)
(* run() and the node handlers.                                            *)
(***************************************************************************)
RECURSIVE run(_, _, _)
RECURSIVE run_block(_, _, _)
RECURSIVE node_assign(_, _, _)
RECURSIVE node_assign_elts(_, _, _, _)

\* `for tnode in block: self.run(tnode)` from the i-th statement on
run_block(s, block, i) ==
    IF i > Len(block) THEN s
    ELSE LET s1 == run(s, block[i], TRUE)
         IN  IF ok(s1) THEN run_block(s1, block, i + 1) ELSE s1

on_expr(s, node) == run(s, node.value, TRUE)

on_pass(s, node) == setval(s, NoneV)

on_constant(s, node) == setval(s, node.value)

\* on_break, on_continue: on_interrupt stores the node in _interrupt
on_interrupt(s, node, kind) ==
    [s EXCEPT !.interrupt = kind, !.val = InterruptV(kind)]

on_return(s, node) ==
    IF s.calldepth = 0 THEN pyraise(s, "SyntaxError")
    ELSE LET s1 == run(s, node.value, TRUE)
         IN  IF ~ok(s1) THEN s1
             ELSE [s1 EXCEPT !.retval = IF s1.val = NoneV
                                        THEN [t |-> "retnone"] ELSE s1.val,
                             !.val = NoneV]

on_module(s, node) == run_block(s, node.body, 1)

on_name(s, node) ==
    IF node.ctx \in {"Param", "Del"} THEN setval(s, StrV(node.id))
    ELSE IF node.id \in DOMAIN s.symtable
         THEN setval(s, s.symtable[node.id])
         ELSE raise_exception(s, node, "NameError", "name is not defined",
                              0, "None")

on_tuple(s, node) ==
    LET RECURSIVE elts(_, _, _)
        elts(s0, i, acc) ==
            IF i > Len(node.elts) THEN setval(s0, TupleV(acc))
            ELSE LET s1 == run(s0, node.elts[i], TRUE)
                 IN  IF ok(s1) THEN elts(s1, i + 1, Append(acc, s1.val))
                     ELSE s1
    IN  elts(s, 1, <<>>)

\* op2func(node.op)(run(left), run(right)), for the operator +
on_binop(s, node) ==
    LET s1 == run(s, node.left, TRUE)
        s2 == run(s1, node.right, TRUE)
    IN  IF ~ok(s1) THEN s1
        ELSE IF ~ok(s2) THEN s2
        ELSE IF s1.val.t = "int" /\ s2.val.t = "int"
             THEN setval(s2, IntV(s1.val.v + s2.val.v))
             ELSE pyraise(s2, "TypeError")

node_assign_elts(s, elts, vals, i) ==
    IF i > Len(elts) THEN s
    ELSE LET s1 == node_assign(s, elts[i], vals[i])
         IN  IF ok(s1) THEN node_assign_elts(s1, elts, vals, i + 1) ELSE s1

node_assign(s, node, val) ==
    CASE node.k = "str" ->
           [s EXCEPT !.symtable = symset(@, node.id, val)]
      [] node.k = "name" ->
           IF ~valid_symbol_name(node.id) \/ node.id \in s.readonly_symbols
           THEN raise_exception(s, node, "NameError", "invalid symbol name",
                                0, "None")
           ELSE [s EXCEPT !.symtable = symset(@, node.id, val),
                          !.no_deepcopy = @ \ {node.id}]
      [] node.k = "attribute" ->
           IF node.ctx = "Load"
           THEN raise_exception(s, node, "AttributeError",
                                "cannot assign to attribute", 0, "None")
           ELSE LET s1 == run(s, node.value, TRUE)
                IN  IF ok(s1) THEN setattr(s1, s1.val, node.attr, val)
                    ELSE s1
      [] node.k = "tuple" ->
           IF val.t \notin {"tuple", "str"} THEN pyraise(s, "TypeError")
           ELSE IF val.t = "tuple" /\ Len(val.v) = Len(node.elts)
           THEN node_assign_elts(s, node.elts, val.v, 1)
           ELSE pyraise(s, "ValueError")
      [] OTHER -> s

\* on_attribute without the blocklist test: every name goes to getattr
on_attribute_unchecked(s, node) ==
    IF node.ctx = "Store"
    THEN raise_exception(s, node, "RuntimeError", "attribute for storage",
                         0, "None")
    ELSE
    LET denied(s4) ==
            IF ok(s4)
            THEN raise_exception(s4, node, "AttributeError", "no attribute",
                                 0, "None")
            ELSE s4
        read(s2) ==
            IF ok(s2) THEN s2
            ELSE denied(run([s2 EXCEPT !.pyexc = "None"], node.value, TRUE))
        value(s1) ==
            IF ~ok(s1) THEN s1
            ELSE IF node.ctx = "Del" THEN delattr(s1, s1.val, node.attr)
            ELSE read(getattr(s1, s1.val, node.attr))
    IN  value(run(s, node.value, TRUE))

on_attribute(s, node) ==
    IF node.ctx = "Store"
    THEN raise_exception(s, node, "RuntimeError", "attribute for storage",
                         0, "None")
    ELSE
    LET unsafe == node.attr \in UNSAFE_ATTRS \/ is_dunder(node.attr)
        \* obj = self.run(node.value); self.raise_exception(...)
        denied(s4) ==
            IF ok(s4)
            THEN raise_exception(s4, node, "AttributeError",
                                 IF unsafe THEN "cannnot access attribute"
                                 ELSE "no attribute", 0, "None")
            ELSE s4
        \* except AttributeError: pass
        read(s2) ==
            IF ok(s2) THEN s2
            ELSE denied(run([s2 EXCEPT !.pyexc = "None"], node.value, TRUE))
        value(s1) ==
            IF ~ok(s1) THEN s1
            ELSE IF node.ctx = "Del" THEN delattr(s1, s1.val, node.attr)
            ELSE IF unsafe THEN denied(run(s1, node.value, TRUE))
            ELSE read(getattr(s1, s1.val, node.attr))
    IN  value(run(s, node.value, TRUE))

on_assign(s, node) ==
    LET s1 == run(s, node.value, TRUE)
        RECURSIVE targets(_, _)
        targets(s0, i) ==
            IF i > Len(node.targets) THEN setval(s0, NoneV)
            ELSE LET s2 == node_assign(s0, node.targets[i], s1.val)
                 IN  IF ok(s2) THEN targets(s2, i + 1) ELSE s2
    IN  IF ok(s1) THEN targets(s1, 1) ELSE s1

\* the Assign and BinOp nodes built here carry no lineno
on_augassign(s, node) ==
    on_assign(s, [k |-> "assign", targets |-> <<node.target>>,
                  value |-> [k |-> "binop", left |-> node.target,
                             right |-> node.value, synthetic |-> TRUE],
                  lbl |-> "", synthetic |-> TRUE])

on_delete(s, node) ==
    LET RECURSIVE targets(_, _)
        targets(s0, i) ==
            IF i > Len(node.targets) THEN setval(s0, NoneV)
            ELSE
            LET tnode == node.targets[i]
            IN  IF tnode.k # "name" THEN pyraise(s0, "AttributeError")
                ELSE IF endswith_(tnode.id)
                THEN raise_exception(s0, node, "None",
                                     "could not delete embedded proc", 0,
                                     "None")
                ELSE IF tnode.ctx # "Del" THEN setval(s0, NoneV)
                ELSE IF tnode.id \notin s0.readonly_symbols
                THEN IF tnode.id \in DOMAIN s0.symtable
                     THEN targets([s0 EXCEPT !.symtable = symdel(@, tnode.id)],
                                  i + 1)
                     ELSE pyraise(s0, "KeyError")
                ELSE raise_exception(s0, node, "None",
                                     "could not delete symbol", 0, "None")
    IN  targets(s, 1)

on_if(s, node) ==
    LET s1 == run(s, node.test, TRUE)
    IN  IF ~ok(s1) THEN s1
        ELSE run_block(s1, IF Truthy(s1.val) THEN node.body ELSE node.orelse,
                       1)

\* the body of one loop iteration: stop at the first statement that leaves
\* _interrupt set
RECURSIVE loop_body(_, _, _)
loop_body(s, body, i) ==
    IF i > Len(body) THEN s
    ELSE LET s1 == run(s, body[i], TRUE)
         IN  IF ~ok(s1) THEN s1
             ELSE IF s1.interrupt # "None" THEN s1
             ELSE loop_body(s1, body, i + 1)

\* the loop's else clause, then `self._interrupt = None`
loop_orelse(s, node) ==
    LET s1 == run_block(s, node.orelse, 1)
    IN  IF ok(s1) THEN [s1 EXCEPT !.interrupt = "None", !.val = NoneV]
        ELSE s1

RECURSIVE on_while(_, _)
on_while(s, node) ==
    LET s1 == run(s, node.test, TRUE)
        s2 == loop_body([s1 EXCEPT !.interrupt = "None",
                                   !.fuel = @ - 1], node.body, 1)
    IN  IF ~ok(s1) THEN s1
        ELSE IF ~Truthy(s1.val) THEN loop_orelse(s1, node)
        ELSE IF s1.fuel = 0 THEN [s1 EXCEPT !.diverged = TRUE]
        ELSE IF ~ok(s2) THEN s2
        ELSE IF s2.interrupt = "Break"
             THEN [s2 EXCEPT !.interrupt = "None", !.val = NoneV]
        ELSE on_while(s2, node)

on_for(s, node) ==
    LET s1 == run(s, node.iter, TRUE)
        RECURSIVE iterate(_, _)
        iterate(s0, i) ==
            IF i > Len(s1.val.v) THEN loop_orelse(s0, node)
            ELSE
            LET s2 == node_assign(s0, node.target, s1.val.v[i])
                s3 == loop_body([s2 EXCEPT !.interrupt = "None"],
                                node.body, 1)
            IN  IF ~ok(s2) THEN s2
                ELSE IF ~ok(s3) THEN s3
                ELSE IF s3.interrupt = "Break"
                     THEN [s3 EXCEPT !.interrupt = "None", !.val = NoneV]
                ELSE iterate(s3, i + 1)
    IN  IF ~ok(s1) THEN s1
        ELSE IF s1.val.t # "tuple" THEN pyraise(s1, "TypeError")
        ELSE iterate(s1, 1)

\* the handler clauses of a try, tested in order from the i-th on, for the
\* fault whose holder recorded the handled exception e_type
RECURSIVE try_handlers(_, _, _, _)
try_handlers(s, node, i, e_type) ==
    IF i > Len(node.handlers) THEN s
    ELSE
    LET hnd == node.handlers[i]
        \* htype = builtins.get(hnd.type.id, None)
        htype == IF hnd.type \in ExcClasses THEN hnd.type ELSE "None"
        \* for tline in hnd.body: self.run(tline)
        hbody(s2) ==
            IF ok(s2)
            THEN run_block(logevn(s2, "handler", hnd.type, Len(s2.error)),
                           hnd.body, 1)
            ELSE s2
        \* self.node_assign(hnd.name, e_value)
        named(s1) ==
            IF hnd.name # "None"
            THEN node_assign(s1, [k |-> "str", id |-> hnd.name],
                             IF e_type = "None" THEN StrV(s.error_msg.text)
                             ELSE ExcV(e_type))
            ELSE s1
    IN  IF htype = "None" \/ e_type = "None"
           \/ isinstance_exc(e_type, htype)
        THEN hbody(named([s EXCEPT !.error = <<>>]))
        ELSE try_handlers(s, node, i + 1, e_type)

\* the body of a try from the i-th statement on; the result carries
\* no_errors in val
RECURSIVE try_body(_, _, _)
try_body(s, node, i) ==
    IF i > Len(node.body) THEN setval(s, IntV(1))
    ELSE
    LET handled(s2) == IF ok(s2) THEN setval(s2, IntV(0)) ELSE s2
        after(s1) ==
            IF ~ok(s1) THEN s1
            ELSE IF Len(s1.error) > 0
            THEN handled(try_handlers(s1, node, 1,
                                      s1.error[Len(s1.error)].exc_info))
            ELSE try_body(s1, node, i + 1)
    IN  after(run(s, node.body[i], FALSE))

on_try(s, node) ==
    LET done(s3) == IF ok(s3) THEN setval(s3, NoneV) ELSE s3
        finalbody(s2) ==
            IF ok(s2) THEN done(run_block(s2, node.finalbody, 1)) ELSE s2
        \* if no_errors: the else block
        orelse(s1) ==
            IF ~ok(s1) THEN s1
            ELSE finalbody(IF s1.val = IntV(1)
                           THEN run_block(s1, node.orelse, 1) ELSE s1)
    IN  orelse(try_body(s, node, 1))

\* out = run(node.exc) is an instance of the class node.exc with one
\* argument, so msg is not empty; the run dispatches the call, the class
\* name and the argument
on_raise(s, node) ==
    raise_exception([s EXCEPT !.ndispatch = @ + 3], NoNode, node.exc,
                    "raised", lineno_of(node), "None")

\* the Procedure object a def builds; kwargs are <<name, default value>>
Procedure(name, lineno, body, args, kwargs, vararg, varkws) ==
    [t |-> "proc", name |-> name, lineno |-> lineno, body |-> body,
     argnames |-> args, kwargs |-> kwargs, vararg |-> vararg,
     varkws |-> varkws]

\* a definition that binds the Procedure whatever the name is
on_functiondef_unchecked(s, node) ==
    [s EXCEPT !.symtable =
                 symset(@, node.name,
                        Procedure(node.name, s.lineno, node.body, node.args,
                                  <<>>, node.vararg, node.kwarg)),
              !.val = NoneV]

on_functiondef(s, node) ==
    LET RECURSIVE defaults(_, _, _)
        defaults(s0, i, acc) ==
            IF i > Len(node.defaults) THEN setval(s0, TupleV(acc))
            ELSE LET s1 == run(s0, node.defaults[i][2], TRUE)
                 \* keyval = self.run(node.args.args[idef+offset]): on_arg
                 \* gives the name
                 IN  IF ok(s1)
                     THEN defaults([s1 EXCEPT !.ndispatch = @ + 1], i + 1,
                                   Append(acc, <<node.defaults[i][1], s1.val>>))
                     ELSE s1
        s2 == defaults(s, 1, <<>>)
    IN  IF ~valid_symbol_name(node.name) \/ node.name \in s.readonly_symbols
        THEN raise_exception(s, node, "NameError", "invalid function name",
                             0, "None")
        ELSE IF endswith_(node.name)
        THEN raise_exception(s, node, "NameError",
                             "invalid function name ('_' ending is reserved)",
                             0, "None")
        ELSE IF ~ok(s2) THEN s2
        ELSE [s2 EXCEPT !.symtable =
                           symset(@, node.name,
                                  Procedure(node.name, s.lineno, node.body,
                                            node.args, s2.val.v, node.vararg,
                                            node.kwarg)),
                        !.no_deepcopy = @ \ {node.name},
                        !.val = NoneV]

(***************************************************************************)
(* Procedure.__call__                                                      *)
(***************************************************************************)
DictV(f) == [t |-> "dict", v |-> f]
ReturnedNone == [t |-> "retnone"]

\* the names of seq[i..] that are keys of kw, in order
RECURSIVE promoted(_, _, _)
promoted(seq, i, kw) ==
    IF i > Len(seq) THEN <<>>
    ELSE IF seq[i] \in DOMAIN kw
         THEN <<seq[i]>> \o promoted(seq, i + 1, kw)
         ELSE promoted(seq, i + 1, kw)

SeqToSet(seq) == {seq[i] : i \in DOMAIN seq}
kwdel(kw, names) == [n \in DOMAIN kw \ names |-> kw[n]]

\* (1) keyword promotion: `for name in self.argnames[nargs:]`
promote_args(proc, args, kwargs) ==
    IF Len(args) < Len(proc.argnames) /\ DOMAIN kwargs # {}
    THEN LET names == promoted(proc.argnames, Len(args) + 1, kwargs)
         IN  [args |-> args \o [i \in DOMAIN names |-> kwargs[names[i]]],
              kwargs |-> kwdel(kwargs, SeqToSet(names))]
    ELSE [args |-> args, kwargs |-> kwargs]

\* surplus positionals become keywords of the defaulted parameters, in
\* declaration order: `if kw_name not in kwargs: kwargs[kw_name] = xarg`
surplus_to_kwargs(proc, args, kwargs) ==
    LET extra == SubSeq(args, Len(proc.argnames) + 1, Len(args))
        names == {proc.kwargs[i][1] : i \in DOMAIN extra}
    IN  [n \in DOMAIN kwargs \cup names |->
            IF n \in DOMAIN kwargs THEN kwargs[n]
            ELSE extra[CHOOSE i \in DOMAIN extra : proc.kwargs[i][1] = n]]

\* symlocals, as <<name, value>> pairs in insertion order, and the keywords
\* left over
bind_locals(proc, args, kwargs) ==
    LET nexp == Len(proc.argnames)
        req == [i \in 1..nexp |-> <<proc.argnames[i], args[i]>>]
        var == IF proc.vararg # "None"
               THEN <<<<proc.vararg, TupleV(SubSeq(args, nexp + 1, Len(args)))>>>>
               ELSE <<>>
        kws == [i \in DOMAIN proc.kwargs |->
                  <<proc.kwargs[i][1],
                    IF proc.kwargs[i][1] \in DOMAIN kwargs
                    THEN kwargs[proc.kwargs[i][1]] ELSE proc.kwargs[i][2]>>]
        left == kwdel(kwargs, {proc.kwargs[i][1] : i \in DOMAIN proc.kwargs})
        vkw == IF proc.varkws # "None" THEN <<<<proc.varkws, DictV(left)>>>>
               ELSE <<>>
    IN  [symlocals |-> req \o var \o kws \o vkw, left |-> left]

\* self.__asteval__.symtable.update(symlocals)
RECURSIVE symupdate(_, _, _)
symupdate(tab, symlocals, i) ==
    IF i > Len(symlocals) THEN tab
    ELSE symupdate(symset(tab, symlocals[i][1], symlocals[i][2]),
                   symlocals, i + 1)

\* the body of a Procedure from the i-th statement on; val carries the
\* return value
RECURSIVE proc_body(_, _, _)
proc_body(s, proc, i) ==
    IF i > Len(proc.body) THEN setval(s, NoneV)
    ELSE
    LET node == proc.body[i]
        \* val = node.test, node.body or node.value
        hasval == node.k \in {"if", "while", "for"} \/ "value" \in DOMAIN node
        valnode == IF node.k \in {"if", "while"} THEN node.test
                   ELSE IF node.k = "for" THEN NoNode
                   ELSE node.value
        s1 == run(s, node, TRUE)
    IN  IF ~hasval THEN pyraise(s, "AttributeError")
        \* exp = val.func.id
        ELSE IF valnode.k = "call" /\ valnode.func.k # "name"
        THEN pyraise(s, "AttributeError")
        ELSE IF ~ok(s1) THEN s1
        \* `if not self.no_print`: a Procedure has no attribute no_print
        ELSE IF Len(s1.error) > 0 THEN pyraise(s1, "AttributeError")
        ELSE IF s1.retval # NoRet
        THEN [s1 EXCEPT !.retval = NoRet,
                        !.val = IF s1.retval = ReturnedNone THEN NoneV
                                ELSE s1.retval]
        ELSE proc_body(s1, proc, i + 1)

\* a return that leaves the symbol table as the body left it
no_restore(s, symlocals, shadowpars, i) == s

\* `for k in symlocals: if k not in shadowpars: del symtable[k]`, then the
\* shadowed names get their saved values back
RECURSIVE restore_symbols(_, _, _, _)
restore_symbols(s, symlocals, shadowpars, i) ==
    IF i > Len(symlocals)
    THEN [s EXCEPT !.symtable =
                      [n \in DOMAIN @ \cup DOMAIN shadowpars |->
                          IF n \in DOMAIN shadowpars THEN shadowpars[n]
                          ELSE @[n]]]
    ELSE LET k == symlocals[i][1]
         IN  IF k \in DOMAIN shadowpars
             THEN restore_symbols(s, symlocals, shadowpars, i + 1)
             ELSE IF k \in DOMAIN s.symtable
             THEN restore_symbols([s EXCEPT !.symtable = symdel(@, k)],
                                  symlocals, shadowpars, i + 1)
             ELSE pyraise(s, "KeyError")

\* lines 1272-1342: snapshot, overwrite, body, restore
call_body(s, proc, symlocals) ==
    LET names == {symlocals[i][1] : i \in DOMAIN symlocals}
        shadowpars == [k \in names \cap DOMAIN s.symtable |-> s.symtable[k]]
        leave(s3) == IF ok(s3) THEN [s3 EXCEPT !.calldepth = @ - 1] ELSE s3
        restore(s2) ==
            IF ok(s2)
            THEN leave(restore_symbols(s2, symlocals, shadowpars, 1))
            ELSE s2
    IN  restore(proc_body([s EXCEPT !.symtable = symupdate(@, symlocals, 1),
                                    !.retval = NoRet,
                                    !.calldepth = @ + 1], proc, 1))

\* a call that runs the body without the arity checks and binds nothing
call_without_checks(s, proc, args0, kwargs0) == call_body(s, proc, <<>>)

\* Procedure.__call__(*args, **kwargs)
procedure_call(s, proc, args0, kwargs0) ==
    LET p == promote_args(proc, args0, kwargs0)
        nargs == Len(p.args)
        nexp == Len(proc.argnames)
        surplus == nargs > nexp /\ proc.vararg = "None"
        kwargs1 == IF surplus /\ nargs - nexp <= Len(proc.kwargs)
                   THEN surplus_to_kwargs(proc, p.args, p.kwargs)
                   ELSE p.kwargs
        b == bind_locals(proc, p.args, kwargs1)
        extra == raise_exception(s, NoNode, "TypeError",
                                 "extra keyword arguments", proc.lineno,
                                 "None")
    IN  IF nargs < nexp
        THEN raise_exception(s, NoNode, "TypeError", "takes at least", 0,
                             "None")
        ELSE IF \E i \in DOMAIN proc.argnames :
                   proc.argnames[i] \in DOMAIN p.kwargs
        THEN raise_exception(s, NoNode, "TypeError",
                             "multiple values for keyword argument",
                             proc.lineno, "None")
        ELSE IF surplus /\ nargs - nexp > Len(proc.kwargs)
        THEN raise_exception(s, NoNode, "TypeError", "too many arguments",
                             0, "None")
        ELSE IF proc.varkws = "None" /\ DOMAIN b.left # {}
        \* raised inside the try, caught by its except clause
        THEN raise_exception([extra EXCEPT !.pyexc = "None"], NoNode, "None",
                             "incorrect arguments", proc.lineno, extra.pyexc)
        ELSE call_body(s, proc, b.symlocals)

\* a host-registered command, called with the evaluated arguments
host_call(s, func, args, keywords) ==
    setval(logev(s, "hostcall", func.name), IntV(0))

on_call(s, node) ==
    LET RECURSIVE evalargs(_, _, _)
        evalargs(s0, i, acc) ==
            IF i > Len(node.args) THEN setval(s0, TupleV(acc))
            ELSE LET r == run(s0, node.args[i], TRUE)
                 IN  IF ok(r) THEN evalargs(r, i + 1, Append(acc, r.val))
                     ELSE r
        RECURSIVE evalkws(_, _, _)
        evalkws(s0, i, acc) ==
            IF i > Len(node.keywords) THEN setval(s0, DictV(acc))
            ELSE IF node.keywords[i][1] \in DOMAIN acc
            THEN raise_exception(s0, node, "SyntaxError",
                                 "keyword argument repeated", 0, "None")
            ELSE LET r == run(s0, node.keywords[i][2], TRUE)
                 IN  IF ok(r)
                     THEN evalkws(r, i + 1,
                                  symset(acc, node.keywords[i][1], r.val))
                     ELSE r
        \* except Exception as ex: out = None; self.raise_exception(...)
        caught(s5) ==
            IF s5.pyexc # "None" /\ ~s5.diverged
            THEN raise_exception(
                     logev([s5 EXCEPT !.pyexc = "None"], "except", s5.pyexc),
                     node, "None", "Error running function call", 0,
                     s5.pyexc)
            ELSE s5
        \* finally: if isinstance(func, Procedure): self._calldepth -= 1
        finally(s6) ==
            IF s6.diverged THEN s6 ELSE [s6 EXCEPT !.calldepth = @ - 1]
        \* out = func(*args, **keywords)
        call(s3, func, args) ==
            IF ~ok(s3) THEN s3
            ELSE IF func.t # "proc"
            THEN caught(host_call(s3, func, args, s3.val.v))
            ELSE IF s3.fuel = 0 THEN [s3 EXCEPT !.diverged = TRUE]
            ELSE finally(caught(procedure_call(
                     [s3 EXCEPT !.calldepth = @ + 1, !.fuel = @ - 1],
                     func, args, s3.val.v)))
        keywords(s2, func) ==
            IF ok(s2) THEN call(evalkws(s2, 1, <<>>), func, s2.val.v) ELSE s2
        args(s1) ==
            IF ~ok(s1) THEN s1
            ELSE IF s1.val.t \notin {"proc", "host"}
            THEN raise_exception(s1, node, "TypeError", "is not callable", 0,
                                 "None")
            ELSE keywords(evalargs(s1, 1, <<>>), s1.val)
    IN  args(run(s, node.func, TRUE))

\* op2func(op)(lval, rval) for the comparison operators <, == and !=:
\* an order exists between two ints only
cmp_defined(op, lval, rval) ==
    op \in {"Eq", "NotEq"} \/ (lval.t = "int" /\ rval.t = "int")
cmpop(op, lval, rval) ==
    CASE op = "Lt" -> BoolV(lval.v < rval.v)
      [] op = "Eq" -> BoolV(lval.t = rval.t /\ lval = rval)
      [] op = "NotEq" -> BoolV(~(lval.t = rval.t /\ lval = rval))

\* on_compare.  The test that ends the chain reads `numpy.ndarray` once
\* use_numpy is set, and the module binds no name numpy: the read raises
\* NameError.  With use_numpy unset the test is false and the chain goes on.
on_compare(s, node) ==
    LET RECURSIVE conj(_, _)
        \* out = out and r, over the results
        conj(results, i) ==
            IF i > Len(results) THEN BoolV(TRUE)
            ELSE IF ~Truthy(results[i]) THEN results[i]
            ELSE IF i = Len(results) THEN results[i]
            ELSE conj(results, i + 1)
        finish(s0, results) ==
            setval(s0, IF Len(results) = 1 THEN results[1]
                       ELSE conj(results, 1))
        RECURSIVE pairs(_, _, _, _)
        compared(s1, i, lval, results) ==
            IF ~ok(s1) THEN s1
            ELSE IF ~cmp_defined(node.ops[i], lval, s1.val)
            THEN pyraise(s1, "TypeError")
            ELSE IF s1.use_numpy THEN pyraise(s1, "NameError")
            ELSE pairs(s1, i + 1, s1.val,
                       Append(results, cmpop(node.ops[i], lval, s1.val)))
        pairs(s0, i, lval, results) ==
            IF i > Len(node.ops) THEN finish(s0, results)
            ELSE compared(run(s0, node.comparators[i], TRUE), i, lval,
                          results)
        left(s1) == IF ok(s1) THEN pairs(s1, 1, s1.val, <<>>) ELSE s1
    IN  left(run(s, node.left, TRUE))

\* the key that `self.symtable[target] = val` writes when target is the
\* tuple of the names of a tuple target: the tuple itself, written here as
\* its text
tuple_key(names) ==
    IF names = <<"x", "y">> THEN "('x', 'y')" ELSE "(tuple)"

\* on_listcomp.  locals is kept as the names in insertion order and the
\* list collected for each name.  saved_syms stays empty: the statement
\* that would fill it reads `copy.deepcopy`, and the module binds no name
\* copy, so a target name that is bound raises NameError.
on_listcomp(s, node) ==
    LET gens == node.generators
        names_of(t) ==
            IF t.k = "name" THEN <<t.id>>
            ELSE [i \in DOMAIN t.elts |-> t.elts[i].id]
        invalid(s0, t) ==
            t.k = "name" /\ (~valid_symbol_name(t.id)
                             \/ t.id \in s0.readonly_symbols)
        \* locals[n] = []
        reset(loc, n) ==
            [names |-> IF \E i \in DOMAIN loc.names : loc.names[i] = n
                       THEN loc.names ELSE Append(loc.names, n),
             data |-> symset(loc.data, n, <<>>)]
        min(a, b) == IF a < b THEN a ELSE b
        RECURSIVE zipappend(_, _, _, _)
        \* for telem, tval in zip(target, val): locals[telem].append(tval)
        zipappend(loc, names, vals, i) ==
            IF i > min(Len(names), Len(vals)) THEN loc
            ELSE zipappend([loc EXCEPT !.data[names[i]] = Append(@, vals[i])],
                           names, vals, i + 1)
        collect(loc, t, val) ==
            IF t.k = "name" THEN [loc EXCEPT !.data[t.id] = Append(@, val)]
            ELSE zipappend(loc, names_of(t), val.v, 1)
        RECURSIVE recurse(_, _, _), values(_, _, _, _)
        \* out.append(self.run(node.elt))
        emit(r, s1) ==
            [s |-> s1, out |-> IF ok(s1) THEN Append(r.out, s1.val) ELSE r.out]
        \* listcomp_recurse(i, names, data)
        recurse(r, loc, i) ==
            IF ~ok(r.s) THEN r
            ELSE IF i > Len(loc.names) THEN emit(r, run(r.s, node.elt, TRUE))
            ELSE values(r, loc, i, 1)
        values(r, loc, i, j) ==
            IF ~ok(r.s) \/ j > Len(loc.data[loc.names[i]]) THEN r
            ELSE values(recurse([r EXCEPT !.s.symtable =
                                     symset(@, loc.names[i],
                                            loc.data[loc.names[i]][j])],
                                loc, i + 1),
                        loc, i, j + 1)
        \* the restore loop has nothing to restore; return out
        result(r) == IF ok(r.s) THEN setval(r.s, ListV(r.out)) ELSE r.s
        RECURSIVE fill(_, _, _), each(_, _, _, _, _),
                  conds(_, _, _, _, _, _, _)
        \* add = add and self.run(cond), for the c-th condition on
        tested(s1, g, vals, i, loc, c) ==
            IF ~ok(s1) THEN s1
            ELSE conds(s1, g, vals, i, loc, c + 1, Truthy(s1.val))
        conds(s0, g, vals, i, loc, c, add) ==
            IF c > Len(gens[g].ifs)
            THEN each(s0, g, vals, i + 1,
                      IF add THEN collect(loc, gens[g].target, vals[i])
                      ELSE loc)
            ELSE IF ~add THEN conds(s0, g, vals, i, loc, c + 1, add)
            ELSE tested(run(s0, gens[g].ifs[c], TRUE), g, vals, i, loc, c)
        \* for val in self.run(tnode.iter), from the i-th value on
        each(s0, g, vals, i, loc) ==
            IF i > Len(vals) THEN fill(s0, g + 1, loc)
            ELSE IF gens[g].target.k = "name"
            THEN conds([s0 EXCEPT !.symtable =
                            symset(@, gens[g].target.id, vals[i])],
                       g, vals, i, loc, 1, TRUE)
            ELSE IF vals[i].t \notin {"tuple", "list"}
            THEN pyraise(s0, "TypeError")
            ELSE conds(IF min(Len(gens[g].target.elts), Len(vals[i].v)) > 0
                       THEN [s0 EXCEPT !.symtable =
                                symset(@, tuple_key(names_of(gens[g].target)),
                                       vals[i])]
                       ELSE s0,
                       g, vals, i, loc, 1, TRUE)
        iterable(s1, g, loc) ==
            IF ~ok(s1) THEN s1
            ELSE IF s1.val.t \notin {"tuple", "list"}
            THEN pyraise(s1, "TypeError")
            ELSE each(s1, g, s1.val.v, 1, loc)
        \* the second loop over the generators: each one is run to its end
        \* before the next starts
        fill(s0, g, loc) ==
            IF g > Len(gens)
            THEN result(recurse([s |-> s0, out |-> <<>>], loc, 1))
            ELSE IF invalid(s0, gens[g].target)
            THEN raise_exception(s0, gens[g].target, "NameError",
                                 "invalid symbol name", 0, "None")
            ELSE iterable(run(s0, gens[g].iter, TRUE), g, loc)
        RECURSIVE save(_, _, _, _)
        \* the first loop over the generators, at the j-th name of the g-th
        save(s0, g, j, loc) ==
            IF g > Len(gens) THEN fill(s0, 1, loc)
            ELSE IF j = 1 /\ invalid(s0, gens[g].target)
            THEN raise_exception(s0, gens[g].target, "NameError",
                                 "invalid symbol name", 0, "None")
            ELSE IF j > Len(names_of(gens[g].target))
            THEN save(s0, g + 1, 1, loc)
            ELSE IF names_of(gens[g].target)[j] \in DOMAIN s0.symtable
            THEN pyraise(s0, "NameError")
            ELSE save(s0, g, j + 1,
                      reset(loc, names_of(gens[g].target)[j]))
    IN  save(s, 1, 1, [names |-> <<>>, data |-> <<>>])

\* the node kinds with a handler
ALL_NODES == {"assign", "attribute", "augassign", "binop", "break", "call",
              "compare", "constant", "continue", "delete", "expr", "for",
              "functiondef", "if", "listcomp", "module", "name", "pass",
              "raise", "return", "try", "tuple", "while"}

\* handler = self.node_handlers[...]; handler(node)
dispatch(s, node) ==
    CASE node.k = "assign" -> on_assign(s, node)
      [] node.k = "attribute" -> on_attribute(s, node)
      [] node.k = "augassign" -> on_augassign(s, node)
      [] node.k = "binop" -> on_binop(s, node)
      [] node.k = "break" -> on_interrupt(s, node, "Break")
      [] node.k = "call" -> on_call(s, node)
      [] node.k = "compare" -> on_compare(s, node)
      [] node.k = "constant" -> on_constant(s, node)
      [] node.k = "continue" -> on_interrupt(s, node, "Continue")
      [] node.k = "delete" -> on_delete(s, node)
      [] node.k = "expr" -> on_expr(s, node)
      [] node.k = "for" -> on_for(s, node)
      [] node.k = "functiondef" -> on_functiondef(s, node)
      [] node.k = "if" -> on_if(s, node)
      [] node.k = "listcomp" -> on_listcomp(s, node)
      [] node.k = "module" -> on_module(s, node)
      [] node.k = "name" -> on_name(s, node)
      [] node.k = "pass" -> on_pass(s, node)
      [] node.k = "raise" -> on_raise(s, node)
      [] node.k = "return" -> on_return(s, node)
      [] node.k = "try" -> on_try(s, node)
      [] node.k = "tuple" -> on_tuple(s, node)
      [] node.k = "while" -> on_while(s, node)

\* Interpreter.abortrun
abortrun(s) == [s EXCEPT !.abort = TRUE]

\* Interpreter.stoprun
stoprun(s) == [s EXCEPT !.stop = TRUE]

\* apyshell's signal handler calls engine.abortrun() while the script runs:
\* abort_in counts the run() calls still to be entered before the signal
\* arrives (-1: no signal); the log keeps how many handlers had been
\* dispatched when it arrived
sighand(s) ==
    IF s.abort_in = 0
    THEN logevn(abortrun([s EXCEPT !.abort_in = -1]), "abortrun", "",
                s.ndispatch)
    ELSE IF s.abort_in > 0 THEN [s EXCEPT !.abort_in = @ - 1]
    ELSE s

\* Interpreter.run
run(s0, node, with_raise) ==
    LET \* except: if with_raise: self.raise_exception(node, expr=expr)
        except(r, exc) ==
            IF with_raise THEN raise_exception(r, node, "None", "", 0, exc)
            ELSE setval(r, NoneV)
        handled(r) ==
            IF r.diverged \/ r.pyexc = "None" THEN r
            ELSE except(logev([r EXCEPT !.pyexc = "None"], "except", r.pyexc),
                        r.pyexc)
        enter(s) ==
            IF s.stop THEN setval(s, NoneV)
            ELSE IF s.abort
            THEN raise_exception(s, node, "None", "execution aborted", 0,
                                 "None")
            ELSE IF Len(s.error) > 0 THEN setval(s, NoneV)
            ELSE IF s.retval # NoRet THEN setval(s, s.retval)
            ELSE IF s.interrupt \in {"Break", "Continue"}
            THEN setval(s, InterruptV(s.interrupt))
            ELSE IF node = NoNode THEN setval(s, NoneV)
            ELSE IF node.k \notin ALL_NODES
            \* except KeyError: return self.unimplemented(node)
            THEN raise_exception(s, node, "NotImplementedError",
                                 "is not supported", 0, "KeyError")
            ELSE handled(dispatch(
                     [(IF lbl_of(node) # ""
                       THEN logev(s, "run", lbl_of(node)) ELSE s)
                      EXCEPT !.ndispatch = @ + 1],
                     node))
    IN  enter(sighand(s0))

\* print(errmsg, file=self.err_writer)
print_err(s) == logev(s, "err_writer", "errmsg")

\* an eval that clears the abort and stop flags before it runs the tree
eval_node_clearing(s, node, show_errors) ==
    LET errmsg(r) ==
            IF r.pyexc = "None" THEN r
            ELSE [print_err(print_err(r)) EXCEPT !.pyexc = "None",
                                                 !.val = StrV("errmsg")]
    IN  errmsg(run([s EXCEPT !.error = <<>>, !.log = <<>>, !.fuel = MaxFuel,
                             !.diverged = FALSE, !.lineno = 0,
                             !.ndispatch = 0, !.abort = FALSE,
                             !.stop = FALSE], node, TRUE))

\* Interpreter.eval from `node = expr` on, with raise_errors False, as
\* ApyEngine builds it: the fault list is reset, the tree is run, and a
\* native exception that reaches eval is written to the error stream (once
\* more when show_errors is set) and turned into the returned error text
eval_node(s, node, show_errors) ==
    LET errmsg(r) ==
            IF r.pyexc = "None" THEN r
            ELSE LET r1 == IF show_errors THEN print_err(r) ELSE r
                 IN  [print_err(r1) EXCEPT !.pyexc = "None",
                                           !.val = StrV("errmsg")]
    IN  errmsg(run([s EXCEPT !.error = <<>>, !.log = <<>>, !.fuel = MaxFuel,
                             !.diverged = FALSE, !.lineno = 0,
                             !.ndispatch = 0], node, TRUE))

\* Interpreter.eval(expr) for a tree, show_errors left at its default
eval(s, script) == eval_node(s, script, TRUE)

\* Interpreter.__init__'s default for max_statement_length
max_statement_length == 50000

\* a script text: its length, and what ast.parse makes of it, a tree
\* (exc "None") or an exception
Text(len, tree, exc) == [k |-> "str", len |-> len, tree |-> tree, exc |-> exc]

\* Interpreter.parse: a text over the cap and a text that ast.parse
\* rejects are recorded with raise_exception, which raises
parse(s, text) ==
    IF text.len > max_statement_length
    THEN raise_exception(s, NoNode, "None", "Runtime Error", s.lineno, "None")
    ELSE IF text.exc = "SyntaxError"
    THEN raise_exception(s, NoNode, "None", "Syntax Error", s.lineno,
                         text.exc)
    ELSE IF text.exc # "None"
    THEN raise_exception(s, NoNode, "None", "Parsing Error", s.lineno,
                         text.exc)
    ELSE s

\* Interpreter.eval(expr) for a string: the length test raises ValueError
\* outside any try block; a parse failure is written to the error stream
\* and returned as text, or raised again when show_errors is off
eval_str(s, text, show_errors) ==
    LET s1 == [s EXCEPT !.error = <<>>, !.log = <<>>, !.lineno = 0]
        p == parse(s1, text)
    IN  IF text.len > max_statement_length
        THEN pyraise(s1, "ValueError")
        ELSE IF p.pyexc # "None"
        THEN IF ~show_errors
             THEN [p EXCEPT !.pyexc = IF Len(p.error) > 0 THEN p.error[1].exc
                                      ELSE "RuntimeError"]
             ELSE [print_err(p) EXCEPT !.pyexc = "None",
                                       !.val = StrV("errmsg")]
        ELSE eval_node(s, text.tree, show_errors)

\* a load that resets the fault list before it runs the file, as eval() does
load_with_reset(s, ccode) == eval(s, ccode)

\* ApyEngine.loadScript_: the file is parsed and run without a reset of the
\* fault list; an exception that reaches loadScript_ is reported
loadScript_(s, ccode) ==
    LET reporterr_(r) ==
            IF r.pyexc = "None" THEN setval(r, NoneV)
            ELSE [r EXCEPT !.pyexc = "None", !.val = StrV("errmsg")]
    IN  reporterr_(run([s EXCEPT !.log = <<>>, !.fuel = MaxFuel,
                                 !.diverged = FALSE, !.ndispatch = 0],
                       ccode, TRUE))

\* astutils.install_python_module for the module numpy: its names are
\* added to the table, ndarray among them
install_python_module(symtable, modname) ==
    IF modname = "numpy"
    THEN symset(symtable, "ndarray", HostV("ndarray"))
    ELSE symtable

\* Interpreter.install: the module is installed, and use_numpy is set when
\* the table then holds ndarray
install(s, modname) ==
    LET symtable1 == install_python_module(s.symtable, modname)
    IN  [s EXCEPT !.symtable = symtable1,
                  !.use_numpy = @ \/ "ndarray" \in DOMAIN symtable1]

(***************************************************************************)
(* The scripts the host evaluates.                                         *)
(***************************************************************************)
Ld(id) == Name(id, "Load")
St(id) == Name(id, "Store")
Num(n) == Constant(IntV(n))
Pair(a, b) == Tuple(<<a, b>>, "Load")

\* sequences of one or two elements of S
Seq1or2(S) == {<<a>> : a \in S} \cup {<<a, b>> : a \in S, b \in S}

\* assignment targets: plain names, attributes of the host object and of
\* an int, and tuples of names
NameTargets == {St(n) : n \in {"x", "pi", "cmd_", "tmp_"}}
AttrTargets ==
    {Attribute(Ld("o"), a, "Store") : a \in Attrs}
    \cup {Attribute(Ld("x"), "__class__", "Store")}
TupleTargets ==
    {Tuple(<<St(a), St(b)>>, "Store") :
        a \in {"x", "y", "pi"}, b \in {"y", "pi", "tmp_"}}

AssignStmts ==
    {Assign(<<t>>, Num(1), "") : t \in NameTargets \cup AttrTargets}
    \cup {Assign(ts, Num(1), "") : ts \in Seq1or2(NameTargets)}
    \cup {Assign(<<t>>, v, "") :
            t \in TupleTargets, v \in {Pair(Num(1), Num(2)), Num(1)}}
    \cup {Assign(<<St("y"), t>>, Pair(Num(1), Num(2)), "") :
            t \in TupleTargets}
    \cup {AugAssign(t, Num(1)) : t \in NameTargets \cup AttrTargets}

DeleteStmts ==
    {Delete(<<Name(n, "Del")>>) : n \in {"x", "y", "pi", "cmd_", "tmp_"}}
    \cup {Delete(<<Name("x", "Del"), Name("cmd_", "Del")>>),
          Delete(<<Attribute(Ld("o"), "foo", "Del")>>)}

AttrLoads ==
    {Expr(Attribute(v, a, "Load")) :
        v \in {Ld("o"), Ld("x"), Ld("cmd_"), Num(1)}, a \in Attrs}

\* statements that end a block early: an undefined name, a script raise,
\* an assignment to a read-only name, native exceptions raised in the
\* statement's own handler (del of an unknown name, unpacking an int),
\* break, continue, return, and a node kind without a handler
Undefined == Expr(Ld("zz"))
Stoppers ==
    {Undefined, Raise("ValueError"), Assign(<<St("pi")>>, Num(1), ""),
     Delete(<<Name("zz", "Del")>>),
     Assign(<<Tuple(<<St("x"), St("y")>>, "Store")>>, Num(1), ""),
     Break, Continue, Return(Num(1)), Import}

\* try statements: a first body statement, then the marked statement b2
Handlers ==
    {<<>>,
     <<ExceptHandler("None", "None", <<Pass("h1")>>)>>,
     <<ExceptHandler("KeyError", "None", <<Pass("h1")>>)>>,
     <<ExceptHandler("NameError", "e", <<Pass("h1")>>)>>,
     <<ExceptHandler("ValueError", "tmp_", <<Pass("h1")>>)>>,
     <<ExceptHandler("KeyError", "None", <<Pass("h1")>>),
       ExceptHandler("Exception", "None", <<Pass("h2")>>)>>,
     <<ExceptHandler("NameError", "None", <<Pass("h1"), Undefined>>),
       ExceptHandler("None", "None", <<Pass("h2")>>)>>}

TryStmts ==
    {Try(<<b1, Pass("b2")>>, hs, <<Pass("else")>>,
         <<Pass("fin1"), Pass("fin2")>>) :
        b1 \in Stoppers \cup {Pass("b1")}, hs \in Handlers}

\* loops over (1, 0) and loops counting x down
LoopBodies ==
    {<<Pass("b1")>>, <<Break>>, <<Continue>>,
     <<If(Ld("x"), <<Break>>, <<>>), Pass("b2")>>,
     <<If(Ld("x"), <<Continue>>, <<>>), Pass("b2")>>,
     <<If(Ld("x"), <<>>, <<Continue>>), Pass("b2")>>,
     <<If(Ld("x"), <<>>, <<Break>>), Pass("b2")>>}
ForStmts ==
    {For(St("x"), Pair(Num(1), Num(0)), body, <<Pass("orelse")>>) :
        body \in LoopBodies}
    \cup {For(St(n), Pair(Num(1), Num(0)), <<Pass("b1")>>, <<>>) :
            n \in {"pi", "tmp_"}}
    \cup {For(St("x"), Pair(Num(1), Num(0)), <<t>>, <<Pass("orelse")>>) :
            t \in TryStmts}
WhileStmts ==
    {While(Ld("x"), <<AugAssign(St("x"), Num(-1))>> \o body,
           <<Pass("orelse")>>) : body \in LoopBodies}

\* def f(params): body, then y = f(1, ...)
ProcBodies ==
    Seq1or2({Assign(<<St("x")>>, Num(7), "b"), Return(Ld("x")),
             Undefined, Pass("b"), Raise("ValueError")})
    \cup {<<Assign(<<St("x")>>, Num(7), "b"), If(Num(1), <<t>>, <<>>)>> :
            t \in TryStmts}
ProcScripts ==
    {<<FunctionDef("f", params, <<>>, "None", "None", body),
       Assign(<<St("m")>>,
              Call(Ld("f"), [i \in DOMAIN params |-> Num(i)], <<>>), "")>> :
        params \in {<<"x">>, <<"x", "y">>, <<"x", "tmp_">>, <<"x", "pi">>},
        body \in ProcBodies}

DefStmts ==
    {FunctionDef(n, <<>>, <<>>, "None", "None", <<Return(Num(1))>>) :
        n \in {"f", "pi", "cmd_", "tmp_", "print"}}

Scripts ==
    {Module(<<st>>) :
        st \in AssignStmts \cup DeleteStmts \cup AttrLoads \cup TryStmts
               \cup ForStmts \cup WhileStmts \cup DefStmts
               \cup {Break, Continue, Return(Num(1))}}
    \cup {Module(b) : b \in ProcScripts}

\* the scripts that are running when the signal handler calls abortrun()
AbortScripts ==
    {Module(<<st>>) :
        st \in {Try(<<b1, Pass("b2")>>, <<h>>, <<Pass("else")>>,
                    <<Pass("fin1"), Pass("fin2")>>) :
                    b1 \in {Pass("b1"), Undefined,
                           Delete(<<Name("zz", "Del")>>)},
                    h \in {ExceptHandler("None", "None", <<Pass("h1")>>),
                           ExceptHandler("KeyError", "None", <<Pass("h1")>>)}}
               \cup {AugAssign(St("x"), Num(1)),
                     Assign(<<St("x")>>, Pair(Num(1), Num(0)), ""),
                     For(St("x"), Pair(Num(1), Num(0)), <<Pass("b1")>>,
                         <<Pass("orelse")>>)}}
    \cup {Module(<<FunctionDef("f", <<"x">>, <<>>, "None", "None",
                               <<Assign(<<St("x")>>, Num(7), "b"),
                                 Return(Ld("x"))>>),
                   Assign(<<St("m")>>, Call(Ld("f"), <<Num(1)>>, <<>>),
                          "")>>)}

\* def f(<signature>): return (<every parameter>), then m = f(<call>): the
\* signatures have up to two required and two defaulted parameters, with
\* and without *va and **kw; the calls pass up to MaxPositionals positional
\* arguments 1, 2, ... and keywords out of a=21, b=22, c=23, z=26
BindSignatures ==
    {[args |-> a, defaults |-> d, vararg |-> va, kwarg |-> kw] :
        a \in {<<>>, <<"a">>, <<"a", "b">>},
        d \in {<<>>, <<<<"c", Num(10)>>>>,
               <<<<"c", Num(10)>>, <<"d", Num(11)>>>>},
        va \in {"None", "va"}, kw \in {"None", "kw"}}
BindCalls ==
    {[args |-> [i \in 1..n |-> Num(i)], keywords |-> k] :
        n \in 0..MaxPositionals,
        k \in {<<>>, <<<<"a", Num(21)>>>>, <<<<"b", Num(22)>>>>,
               <<<<"c", Num(23)>>>>, <<<<"z", Num(26)>>>>,
               <<<<"b", Num(22)>>, <<"a", Num(21)>>>>,
               <<<<"a", Num(21)>>, <<"c", Num(23)>>>>,
               <<<<"c", Num(23)>>, <<"z", Num(26)>>>>}}
param_names(sig) ==
    sig.args \o [i \in DOMAIN sig.defaults |-> sig.defaults[i][1]]
    \o (IF sig.vararg = "None" THEN <<>> ELSE <<sig.vararg>>)
    \o (IF sig.kwarg = "None" THEN <<>> ELSE <<sig.kwarg>>)
BindScripts ==
    {Module(<<FunctionDef("f", sig.args, sig.defaults, sig.vararg, sig.kwarg,
                          <<Return(Tuple([i \in DOMAIN param_names(sig) |->
                                             Ld(param_names(sig)[i])],
                                         "Load"))>>),
              Assign(<<St("m")>>, Call(Ld("f"), c.args, c.keywords), "")>>) :
        sig \in BindSignatures, c \in BindCalls}

\* def f(a): v = 7; return a, then m = f(1): the body assigns a name that
\* is not a parameter
LocalScripts ==
    {Module(<<FunctionDef("f", <<"a">>, <<>>, "None", "None",
                          <<Assign(<<St(v)>>, Num(7), "b"), Return(Ld("a"))>>),
              Assign(<<St("m")>>, Call(Ld("f"), <<Num(1)>>, <<>>), "")>>) :
        v \in {"x", "y"}}
\* def f(x): return x, then f.<field> = 7 and m = 5
SetattrScripts ==
    {Module(<<FunctionDef("f", <<"x">>, <<>>, "None", "None",
                          <<Return(Ld("x"))>>),
              Assign(<<Attribute(Ld("f"), attr, "Store")>>, Num(7), "set"),
              Assign(<<St("m")>>, Num(5), "after")>>) :
        attr \in {"name", "argnames", "kwargs", "vararg", "varkws", "body"}}
FuncScripts ==
    {Module(b) : b \in ProcScripts} \cup LocalScripts \cup SetattrScripts

\* MaxOperand is the largest literal of a comparison chain
MaxOperand == 2

\* m = c0 op c1, m = c0 op1 c1 op2 c2 and m = c0 < c1 < c2 < c3; an operand
\* is an int literal that the log shows when it is evaluated
CompareScripts ==
    LET Operand(n, lbl) == [k |-> "constant", value |-> IntV(n), lbl |-> lbl]
        CmpOps == {"Lt", "Eq", "NotEq"}
    IN
    {Module(<<Assign(<<St("m")>>,
                     Compare(Operand(a, "c0"), ops,
                             SubSeq(<<Operand(b, "c1"), Operand(c, "c2")>>,
                                    1, Len(ops))), "")>>) :
        ops \in Seq1or2(CmpOps), a \in 0..MaxOperand, b \in 0..MaxOperand,
        c \in 0..MaxOperand}
    \cup
    {Module(<<Assign(<<St("m")>>,
                     Compare(Operand(a, "c0"), <<"Lt", "Lt", "Lt">>,
                             <<Operand(b, "c1"), Operand(c, "c2"),
                               Operand(3, "c3")>>), "")>>) :
        a \in 0..1, b \in 1..2, c \in 0..MaxOperand}

\* m = [elt for ...], with the generators for x in ... [if ...] for y in
\* ... [if ...], for (x, y) in ..., and the same name twice
ListScripts ==
    LET Less(id, n) == Compare(Ld(id), <<"Lt">>, <<Num(n)>>)
        Gen1 ==
            {comprehension(St("x"), it, ifs) :
                it \in {Pair(Num(1), Num(2)), Tuple(<<>>, "Load")},
                ifs \in {<<>>, <<Less("x", 2)>>,
                         <<Less("x", 1),
                           Compare(Ld("x"), <<"Eq">>, <<Num(1)>>)>>}}
        Gen2 ==
            {comprehension(St("y"), it, ifs) :
                it \in {Pair(Num(1), Num(2)), Pair(Ld("x"), Num(3))},
                ifs \in {<<>>, <<Less("y", 2)>>,
                         <<Compare(Ld("x"), <<"NotEq">>, <<Ld("y")>>)>>}}
        GenTuple ==
            {comprehension(Tuple(<<St("x"), St("y")>>, "Store"),
                           Pair(Pair(Num(1), Num(2)), Pair(Num(3), Num(4))),
                           ifs) :
                ifs \in {<<>>, <<Less("x", 2)>>}}
    IN
    {Module(<<Assign(<<St("m")>>, lc, "")>>) :
        lc \in {ListComp(elt, <<g>>) :
                    elt \in {Ld("x"), BinOp(Ld("x"), Num(1))}, g \in Gen1}
           \cup {ListComp(Pair(Ld("x"), Ld("y")), <<g1, g2>>) :
                    g1 \in Gen1, g2 \in Gen2}
           \cup {ListComp(elt, <<g>>) :
                    elt \in {Ld("x"), Pair(Ld("x"), Ld("y"))},
                    g \in GenTuple}
           \cup {ListComp(Ld("x"),
                          <<comprehension(St("x"), Pair(Num(1), Num(2)),
                                          <<>>),
                            comprehension(St("x"), Pair(Num(3), Num(4)),
                                          <<>>)>>)}}

ExprScripts == CompareScripts \cup ListScripts

\* the script files the host loads
LoadScripts ==
    {Module(<<Assign(<<St("y")>>, Num(1), "ld")>>),
     Module(<<Undefined>>)}

\* the scripts of the evals after the first: a sample of each family
Followups ==
    {Module(<<st>>) :
        st \in {Expr(Attribute(Ld("o"), "__class__", "Load")),
                Expr(Attribute(Ld("x"), "__dict__", "Load")),
                Expr(Attribute(Ld("o"), "foo", "Load")),
                Assign(<<St("x"), St("pi")>>, Num(1), ""),
                Assign(<<St("tmp_")>>, Num(1), ""),
                Assign(<<Attribute(Ld("o"), "func_globals", "Store")>>,
                       Num(1), ""),
                Return(Num(1)), Break,
                Try(<<Raise("ValueError"), Pass("b2")>>,
                    <<ExceptHandler("KeyError", "None", <<Pass("h1")>>)>>,
                    <<Pass("else")>>, <<Pass("fin1"), Pass("fin2")>>)}}
    \cup {Module(<<FunctionDef("f", ps[1], <<>>, "None", "None", ps[2]),
                   Assign(<<St("m")>>,
                          Call(Ld("f"), [i \in DOMAIN ps[1] |-> Num(i)],
                               <<>>), "")>>) :
            ps \in {<<<<"x", "y">>,
                      <<Assign(<<St("x")>>, Num(7), "b"), Return(Ld("x"))>>>>,
                    <<<<"x">>,
                      <<Assign(<<St("x")>>, Num(7), "b"), Undefined>>>>,
                    <<<<"x", "tmp_">>, <<Return(Ld("x"))>>>>}}

(***************************************************************************)
(* The state: the Interpreter that ApyEngine owns, and what the checks     *)
(* remember of the last eval().                                            *)
(***************************************************************************)
VARIABLES
    interp,     \* the Interpreter's fields (see Interpreter.__init__)
    script,     \* the script of the last eval(), NoNode before the first
    pre,        \* the Interpreter as it was when the last eval() started
    post,       \* the Interpreter as the last eval() left it
    nevals,     \* eval() calls so far
    call,       \* the last script call: "eval" or "loadScript_", "None" before
    hostsyms,   \* the names ending in `_` that the host has bound
    threads,    \* the host threads that call addSymbol and getSymbol: the
                \* owner of symlock (0: free), and each thread's position,
                \* key, value and the value its getSymbol returned
    host        \* the fields of ApyEngine and ExtensionMgr outside the
                \* Interpreter, and the outcome of the host's last call

vars == <<interp, script, pre, post, nevals, call, hostsyms, threads, host>>

\* Interpreter.__init__ as ApyEngine.__init__ calls it (builtins_readonly
\* True), followed by the engine's regcmd calls; pi stands for the builtin
\* symbols, cmd_ for the engine's commands, o is a host object
Interpreter ==
    LET symtable0 == [n \in {"pi", "errline_"} |->
                        IF n = "pi" THEN IntV(3) ELSE IntV(0)]
    IN  [symtable |-> symset(symset(symtable0, "cmd_", HostV("cmd_")),
                             "o", ObjV),
         readonly_symbols |-> {"errline_"} \cup DOMAIN symtable0 \cup {"cmd_"},
         no_deepcopy |-> {},
         error |-> <<>>,
         error_msg |-> NoMsg,
         first_msg |-> NoMsg,
         interrupt |-> "None",
         retval |-> NoRet,
         calldepth |-> 0,
         lineno |-> 0,
         abort |-> FALSE,
         stop |-> FALSE,
         globalsyms |-> FALSE,
         use_numpy |-> FALSE,
         heap |-> [a \in {"foo"} |-> IntV(1)],
         val |-> NoneV,
         pyexc |-> "None",
         log |-> <<>>,
         fuel |-> MaxFuel,
         diverged |-> FALSE,
         abort_in |-> -1,
         ndispatch |-> 0]

\* ApyEngine.__init__ and ExtensionMgr.__init__: no procedure is persistent
\* and no extension is loaded; ret and raised are what the host's last call
\* returned and the exception it raised
\* ename and wasloaded are the argument of the last unloadExtension_ and
\* whether that extension was loaded when it was called
NoHost == [persistprocs |-> <<>>, activeExtensions |-> {}, arg |-> {},
           ename |-> "None", wasloaded |-> FALSE,
           ret |-> "None", raised |-> "None"]

\* no host thread besides the one that drives the engine
NoThreads == [lock |-> 0, pc |-> <<>>, key |-> <<>>, val |-> <<>>, got |-> <<>>]

Init ==
    /\ threads = NoThreads
    /\ interp = Interpreter
    /\ script = NoNode
    /\ pre = Interpreter
    /\ post = Interpreter
    /\ nevals = 0
    /\ call = "None"
    /\ hostsyms = [n \in {"cmd_"} |-> HostV("cmd_")]
    /\ host = NoHost

\* the host evaluates a script: ApyEngine.eval_ -> Interpreter.eval
Eval(sc) ==
    /\ nevals < MaxEvals
    /\ interp' = eval(interp, sc)
    /\ script' = sc
    /\ pre' = interp
    /\ post' = interp'
    /\ nevals' = nevals + 1
    /\ call' = "eval"
    /\ UNCHANGED <<hostsyms, threads, host>>

\* the host evaluates a script and SIGINT arrives while it runs, before
\* run() is entered for the (k+1)-th time: the handler calls abortrun()
EvalWithAbortrun(sc, k) ==
    /\ call = "None"
    /\ interp' = [eval([interp EXCEPT !.abort_in = k], sc)
                  EXCEPT !.abort_in = -1]
    /\ script' = sc
    /\ pre' = interp
    /\ post' = interp'
    /\ nevals' = nevals + 1
    /\ call' = "eval"
    /\ UNCHANGED <<hostsyms, threads, host>>

\* the host loads a script file: ApyEngine.loadScript_ (two loads in a row
\* are not modelled)
LoadScript(sc) ==
    /\ call # "loadScript_"
    /\ interp' = loadScript_(interp, sc)
    /\ script' = sc
    /\ pre' = interp
    /\ post' = interp'
    /\ call' = "loadScript_"
    /\ UNCHANGED <<nevals, hostsyms, threads, host>>

\* Interpreter.addSymbol, called by the host; the host fills the symbol
\* table before it runs scripts
\* a store that writes the value to every entry of the table
addSymbol_all(s, name, val) ==
    [s EXCEPT !.symtable = [n \in DOMAIN @ \cup {name} |-> val]]

addSymbol(s, name, val) == [s EXCEPT !.symtable = symset(@, name, val)]

AddSymbol(name, val) ==
    /\ call = "None"
    /\ interp' = addSymbol(interp, name, val)
    /\ hostsyms' = IF endswith_(name) THEN symset(hostsyms, name, val)
                   ELSE hostsyms
    /\ UNCHANGED <<script, pre, post, nevals, call, threads, host>>

\* Interpreter.delSymbol, called by the host
delSymbol(s, name) ==
    IF name \in DOMAIN s.symtable
    THEN [s EXCEPT !.symtable = symdel(@, name)]
    ELSE s

DelSymbol(name) ==
    /\ call = "None"
    /\ interp' = delSymbol(interp, name)
    /\ hostsyms' = symdel(hostsyms, name)
    /\ UNCHANGED <<script, pre, post, nevals, call, threads, host>>

\* ApyEngine.regcmd(name, func)
regcmd(s, name, func) ==
    IF valid_symbol_name(name)
    THEN [addSymbol(s, name, func) EXCEPT !.readonly_symbols = @ \cup {name}]
    ELSE s

Regcmd(name) ==
    /\ call = "None"
    /\ interp' = regcmd(interp, name, HostV(name))
    /\ hostsyms' = IF endswith_(name) THEN symset(hostsyms, name, HostV(name))
                   ELSE hostsyms
    /\ UNCHANGED <<script, pre, post, nevals, call, threads, host>>

\* ApyEngine.install_: a module that is not installed yet is installed
Install(modname) ==
    /\ call = "None"
    /\ ~interp.use_numpy
    /\ interp' = install(interp, modname)
    /\ UNCHANGED <<script, pre, post, nevals, call, hostsyms, threads, host>>

Next ==
    \/ \E sc \in IF call = "None" THEN Scripts ELSE Followups : Eval(sc)
    \/ \E sc \in AbortScripts, k \in 0..MaxAbortAt : EvalWithAbortrun(sc, k)
    \/ \E sc \in LoadScripts : LoadScript(sc)
    \/ \E name \in {"x", "tmp_"} : AddSymbol(name, IntV(2))
    \/ \E name \in {"tmp_"} : DelSymbol(name)
    \/ \E name \in {"tmp_"} : Regcmd(name)

Spec == Init /\ [][Next]_vars

\* ApyEngine(global_funcs=...): the engine is built with either value of
\* the flag, and the host runs scripts that define and call a procedure
InitGlobalFuncs ==
    /\ \E global_funcs \in BOOLEAN :
          interp = [Interpreter EXCEPT !.globalsyms = global_funcs]
    /\ threads = NoThreads
    /\ script = NoNode
    /\ pre = interp
    /\ post = interp
    /\ nevals = 0
    /\ call = "None"
    /\ hostsyms = [n \in {"cmd_"} |-> HostV("cmd_")]
    /\ host = NoHost

NextGlobalFuncs ==
    \/ \E sc \in IF call = "None" THEN FuncScripts ELSE Followups : Eval(sc)
    \/ \E name \in {"x"} : AddSymbol(name, IntV(2))

SpecGlobalFuncs == InitGlobalFuncs /\ [][NextGlobalFuncs]_vars

\* the host binds x or not, installs numpy or not, and evaluates a
\* comparison chain or a list comprehension
NextExpr ==
    \/ \E sc \in IF call = "None" THEN ExprScripts ELSE Followups : Eval(sc)
    \/ \E name \in {"x"} : AddSymbol(name, IntV(2))
    \/ \E modname \in {"numpy"} : Install(modname)

SpecExpr == Init /\ [][NextExpr]_vars

\* the statement texts the host passes to eval: at the cap, one character
\* over it, rejected by ast.parse, and parsed to a statement that returns a
\* value, faults or raises
Texts ==
    {Text(len, Module(<<st>>), "None") :
        len \in {1, max_statement_length, max_statement_length + 1},
        st \in AssignStmts \cup DeleteStmts \cup Stoppers \cup {Expr(Num(1))}}
    \cup {Text(len, NoNode, exc) :
            len \in {1, max_statement_length + 1},
            exc \in {"SyntaxError", "ValueError"}}

\* the host evaluates a statement text: Interpreter.eval(expr, show_errors)
EvalText(text, show_errors) ==
    /\ nevals < MaxEvals
    /\ interp' = [eval_str(interp, text, show_errors) EXCEPT !.pyexc = "None"]
    /\ script' = [text EXCEPT !.tree = IF text.exc = "None" THEN @ ELSE NoNode]
    /\ pre' = interp
    /\ post' = eval_str(interp, text, show_errors)
    /\ nevals' = nevals + 1
    /\ call' = IF show_errors THEN "eval_str" ELSE "eval_str_quiet"
    /\ UNCHANGED <<hostsyms, threads, host>>

NextText ==
    \/ \E text \in Texts, show_errors \in BOOLEAN : EvalText(text, show_errors)
    \/ \E name \in {"x", "tmp_"} : AddSymbol(name, IntV(2))
    \/ \E name \in {"tmp_"} : DelSymbol(name)

SpecText == Init /\ [][NextText]_vars

(***************************************************************************)
(* regcmd step by step, next to a script statement of another thread.      *)
(* threads holds the position of the thread inside regcmd, the name it     *)
(* registers, what regcmd returned, and whether the name was in both tables *)
(* when it returned.                                                        *)
(***************************************************************************)
InitRegcmd ==
    /\ threads = [pc |-> "idle", name |-> "None", ret |-> FALSE,
                  inboth |-> FALSE]
    /\ interp = Interpreter
    /\ script = NoNode
    /\ pre = Interpreter
    /\ post = Interpreter
    /\ nevals = 0
    /\ call = "None"
    /\ hostsyms = [n \in {"cmd_"} |-> HostV("cmd_")]
    /\ host = NoHost

\* regcmd up to and including self.__ast.addSymbol(name, func); a reserved
\* word is refused
RegcmdAddSymbol(name) ==
    /\ threads.pc = "idle"
    /\ IF valid_symbol_name(name)
       THEN /\ interp' = addSymbol(interp, name, HostV(name))
            /\ threads' = [threads EXCEPT !.pc = "added", !.name = name]
       ELSE /\ interp' = interp
            /\ threads' = [pc |-> "done", name |-> name, ret |-> FALSE,
                           inboth |-> FALSE]
    /\ UNCHANGED <<script, pre, post, nevals, call, hostsyms, host>>

\* regcmd from `if name not in self.__ast.readonly_symbols` to return True
RegcmdReadonly ==
    /\ threads.pc = "added"
    /\ interp' = [interp EXCEPT !.readonly_symbols = @ \cup {threads.name}]
    /\ threads' = [threads EXCEPT
                      !.pc = "done", !.ret = TRUE,
                      !.inboth = threads.name \in DOMAIN interp.symtable]
    /\ hostsyms' = IF endswith_(threads.name)
                   THEN symset(hostsyms, threads.name, HostV(threads.name))
                   ELSE hostsyms
    /\ UNCHANGED <<script, pre, post, nevals, call, host>>

\* the statements of the other thread: assignments and deletions
RegcmdScripts == {Module(<<st>>) : st \in AssignStmts \cup DeleteStmts}

NextRegcmd ==
    \/ \E name \in {"x", "y", "tmp_", "print"} : RegcmdAddSymbol(name)
    \/ RegcmdReadonly
    \/ \E sc \in RegcmdScripts : Eval(sc)

SpecRegcmd == InitRegcmd /\ [][NextRegcmd]_vars

(***************************************************************************)
(* A script that runs statement by statement on the main thread, next to   *)
(* an extension thread that delivers events through handleEvents.  threads *)
(* holds the main thread's position in the module body (0: no eval in      *)
(* progress, -1: an exception is propagating to eval), the exception in    *)
(* flight on the main thread, the number of events delivered, and whether  *)
(* a handler was evaluated while the main thread's eval was in progress.   *)
(***************************************************************************)
MaxHandled == 2

InitHandlers ==
    /\ threads = [main |-> 0, exc |-> "None", nhandled |-> 0, clash |-> FALSE]
    /\ interp = Interpreter
    /\ script = NoNode
    /\ pre = Interpreter
    /\ post = Interpreter
    /\ nevals = 0
    /\ call = "None"
    /\ hostsyms = [n \in {"cmd_"} |-> HostV("cmd_")]
    /\ host = NoHost

\* the script of the main thread: it defines the handler f, and goes on
\* with two statements
HandlerScripts ==
    {Module(<<FunctionDef("f", <<"x">>, <<>>, "None", "None", body), s2, s3>>) :
        body \in {<<Return(Ld("x"))>>, <<Undefined>>},
        s2 \in {Assign(<<St("x")>>, Num(1), "s2"), Undefined,
                Assign(<<St("pi")>>, Num(1), "s2")},
        s3 \in {Assign(<<St("y")>>, Num(1), "s3"), Undefined}}

\* Interpreter.eval on the main thread up to the first statement of the
\* module: the fault list is reset and run() dispatches on_module
MainEvalBegin(sc) ==
    /\ threads.main = 0 /\ nevals < MaxEvals
    /\ ~interp.stop /\ ~interp.abort /\ interp.retval = NoRet
    /\ interp.interrupt \notin {"Break", "Continue"}
    /\ interp' = [interp EXCEPT !.error = <<>>, !.log = <<>>, !.fuel = MaxFuel,
                                !.diverged = FALSE, !.lineno = 0,
                                !.ndispatch = 1]
    /\ script' = sc
    /\ pre' = interp
    /\ nevals' = nevals + 1
    /\ call' = "running"
    /\ threads' = [threads EXCEPT !.main = 1]
    /\ UNCHANGED <<post, hostsyms, host>>

\* on_module: self.run(tnode) for the next statement; an exception leaves
\* the loop, and the end of the body ends the eval
MainEvalStep ==
    /\ threads.main > 0 /\ threads.main \in DOMAIN script.body
    /\ LET s1 == run(interp, script.body[threads.main], TRUE)
           done == ok(s1) /\ threads.main = Len(script.body)
       IN  /\ interp' = [s1 EXCEPT !.pyexc = "None"]
           /\ threads' = [threads EXCEPT
                             !.main = IF ~ok(s1) THEN -1
                                      ELSE IF done THEN 0 ELSE @ + 1,
                             !.exc = s1.pyexc]
           /\ post' = IF done THEN interp' ELSE post
           /\ call' = IF done THEN "eval" ELSE call
    /\ UNCHANGED <<script, pre, nevals, hostsyms, host>>

\* the exception reaches run(module), whose except block records it once
\* more, and then eval, which writes and returns the error text
MainEvalExcept ==
    /\ threads.main = -1
    /\ LET r == logev(interp, "except", threads.exc)
           r1 == raise_exception(r, script, "None", "", 0, threads.exc)
       IN  interp' = [print_err(print_err(r1)) EXCEPT !.pyexc = "None",
                                                      !.val = StrV("errmsg")]
    /\ post' = interp'
    /\ call' = "eval"
    /\ threads' = [threads EXCEPT !.main = 0, !.exc = "None"]
    /\ UNCHANGED <<script, pre, nevals, hostsyms, host>>

\* ApyEngine.isDef_
isDef_(s, name) == name \in DOMAIN s.symtable

\* ExtensionMgr.handleEvents on the extension's thread: a handler that is
\* defined is called through ApyEngine.eval_ with the text name(data)
handleEvents(s, name, data) ==
    IF ~isDef_(s, name) THEN s
    ELSE LET cmd == Text(4, Module(<<Expr(Call(Ld(name), <<Num(data)>>,
                                              <<>>))>>), "None")
         IN  [eval_str(s, cmd, TRUE) EXCEPT !.pyexc = "None"]

HandleEvents(name, data) ==
    /\ threads.nhandled < MaxHandled
    /\ isDef_(interp, name)
    /\ interp' = handleEvents(interp, name, data)
    /\ threads' = [threads EXCEPT !.nhandled = @ + 1,
                                  !.clash = @ \/ threads.main # 0]
    /\ UNCHANGED <<script, pre, post, nevals, call, hostsyms, host>>

NextHandlers ==
    \/ \E sc \in HandlerScripts : MainEvalBegin(sc)
    \/ MainEvalStep
    \/ MainEvalExcept
    \/ \E name \in {"f"} : HandleEvents(name, 1)

SpecHandlers == InitHandlers /\ [][NextHandlers]_vars

(***************************************************************************)
(* The procedures that the script has defined, the persist list and the    *)
(* bulk clear.                                                              *)
(***************************************************************************)
\* the names that apyengine.py binds at module level: its imports
module_globals == {"sys", "exists", "gc", "Interpreter", "valid_symbol_name"}

\* x in a list
in_list(x, list) == \E i \in DOMAIN list : list[i] = x

\* del list[list.index(x)]
del_index(list, x) ==
    LET pindex == CHOOSE i \in DOMAIN list :
                      list[i] = x /\ \A j \in 1..(i - 1) : list[j] # x
    IN  [i \in 1..(Len(list) - 1) |->
            IF i < pindex THEN list[i] ELSE list[i + 1]]

\* ApyEngine.setProcPersist: the new persist list
setProcPersist(persistprocs, pname, flag) ==
    IF flag
    THEN IF in_list(pname, persistprocs) THEN persistprocs
         ELSE Append(persistprocs, pname)
    ELSE IF in_list(pname, persistprocs) THEN del_index(persistprocs, pname)
    ELSE persistprocs

\* a clear whose type test finds the class Procedure
clearProcs_typed(s, persistprocs, exception_list) ==
    LET klist == {k \in DOMAIN s.symtable :
                     s.symtable[k].t = "proc" /\ ~in_list(k, persistprocs)}
    IN  [s EXCEPT !.symtable =
                      [k \in DOMAIN @ \ (klist \ exception_list) |-> @[k]]]

\* ApyEngine.clearProcs: the type test of the first entry of the table
\* reads the global name asteval
clearProcs(s, persistprocs, exception_list) ==
    IF DOMAIN s.symtable = {} THEN s
    ELSE IF "asteval" \notin module_globals THEN pyraise(s, "NameError")
    ELSE clearProcs_typed(s, persistprocs, exception_list)

\* the scripts that define one or two procedures
DefScripts ==
    {Module(<<FunctionDef(n, <<>>, <<>>, "None", "None", <<Return(Num(1))>>)>>) :
        n \in {"f", "m"}}
    \cup {Module(<<FunctionDef("f", <<>>, <<>>, "None", "None",
                               <<Return(Num(1))>>),
                   FunctionDef(n, <<"x">>, <<>>, "None", "None",
                               <<Return(Ld("x"))>>)>>) : n \in {"m", "e"}}

SetProcPersist(pname, flag) ==
    /\ call # "clearProcs"
    /\ host' = [host EXCEPT
                   !.persistprocs = setProcPersist(@, pname, flag),
                   !.ret = IF flag \/ in_list(pname, host.persistprocs)
                           THEN "True" ELSE "False"]
    /\ UNCHANGED <<interp, script, pre, post, nevals, call, hostsyms, threads>>

\* the host calls clearProcs; an exception it raises reaches the caller
ClearProcs(exception_list) ==
    /\ call # "clearProcs"
    /\ LET r == clearProcs(interp, host.persistprocs, exception_list)
       IN  /\ interp' = [r EXCEPT !.pyexc = "None"]
           /\ post' = interp'
           /\ host' = [host EXCEPT !.arg = exception_list,
                                   !.ret = "None", !.raised = r.pyexc]
    /\ pre' = interp
    /\ call' = "clearProcs"
    /\ UNCHANGED <<script, nevals, hostsyms, threads>>

NextProcs ==
    \/ \E sc \in DefScripts : Eval(sc)
    \/ \E name \in {"x"} : AddSymbol(name, IntV(2))
    \/ \E pname \in {"f", "m"}, flag \in BOOLEAN : SetProcPersist(pname, flag)
    \/ \E exception_list \in SUBSET {"f", "e"} : ClearProcs(exception_list)

SpecProcs == Init /\ [][NextProcs]_vars

(***************************************************************************)
(* Extensions: queueext is loaded and unloaded, and a script calls one of  *)
(* its commands.                                                            *)
(***************************************************************************)
\* ExtensionMgr.__availExtensions after the scan of the extension directory
availExtensions == {"queueext"}
\* QueueExt.__cmddict after register(), two of its commands
cmddict == {"queue_open_", "queue_len_"}

RECURSIVE addcmds(_, _)
\* ApyEngine.addcmds: regcmd for every entry of the dict
addcmds(s, cmds) ==
    IF cmds = {} THEN s
    ELSE LET k == CHOOSE k \in cmds : TRUE
         IN  addcmds(regcmd(s, k, HostV(k)), cmds \ {k})

\* an unregcmd that calls valid_symbol_name as regcmd does
unregcmd_imported(s, name) ==
    IF valid_symbol_name(name)
    THEN [delSymbol(s, name) EXCEPT !.readonly_symbols = @ \ {name}]
    ELSE s

\* ApyEngine.unregcmd: the validity test reads the global name asteval
unregcmd(s, name) ==
    IF "asteval" \notin module_globals THEN pyraise(s, "NameError")
    ELSE unregcmd_imported(s, name)

RECURSIVE delcmds(_, _)
\* ApyEngine.delcmds: unregcmd for every entry, up to the first exception
delcmds(s, cmds) ==
    IF cmds = {} \/ s.pyexc # "None" THEN s
    ELSE LET k == CHOOSE k \in cmds : TRUE
         IN  delcmds(unregcmd(s, k), cmds \ {k})

\* ExtensionAPI.unregisterCmds: an exception of delcmds is caught and
\* False is returned; QueueExt.unregister does not read the result
unregisterCmds(s, mdict) ==
    IF mdict = {} THEN s
    ELSE [delcmds(s, mdict) EXCEPT !.pyexc = "None"]

\* ExtensionMgr.loadExtension_ of an extension that is not loaded:
\* register() installs the commands
LoadExtension(ename) ==
    /\ ename \in availExtensions
    /\ ename \notin host.activeExtensions
    /\ interp' = addcmds(interp, cmddict)
    /\ hostsyms' = [n \in DOMAIN hostsyms \cup cmddict |->
                       IF n \in cmddict THEN HostV(n) ELSE hostsyms[n]]
    /\ host' = [host EXCEPT !.activeExtensions = @ \cup {ename},
                            !.ret = "True"]
    /\ UNCHANGED <<script, pre, post, nevals, call, threads>>

\* ExtensionMgr.unloadExtension_: an extension that has an object is shut
\* down, unregistered and taken off the tables; True is returned
UnloadExtension(ename) ==
    /\ ename \in availExtensions
    /\ call # "unloadExtension_"
    /\ interp' = IF ename \in host.activeExtensions
                 THEN unregisterCmds(interp, cmddict) ELSE interp
    /\ host' = [host EXCEPT !.activeExtensions = @ \ {ename},
                            !.ename = ename,
                            !.wasloaded = ename \in host.activeExtensions,
                            !.ret = "True"]
    /\ pre' = interp
    /\ post' = interp'
    /\ call' = "unloadExtension_"
    /\ UNCHANGED <<script, nevals, hostsyms, threads>>

\* the scripts that use the extension: a call of a command, and a test
\* that the name is assignable
ExtScripts ==
    {Module(<<Assign(<<St("m")>>, Call(Ld(k), <<>>, <<>>), "")>>) :
        k \in cmddict}
    \cup {Module(<<Assign(<<St(k)>>, Num(1), "")>>) : k \in cmddict}
    \cup {Module(<<Assign(<<St("x")>>, Num(n), "")>>) : n \in 1..2}

NextExt ==
    \/ \E ename \in availExtensions : LoadExtension(ename)
    \/ \E ename \in availExtensions : UnloadExtension(ename)
    \/ \E sc \in ExtScripts : Eval(sc)
    \/ \E name \in {"x", "tmp_"} : AddSymbol(name, IntV(2))

SpecExt == Init /\ [][NextExt]_vars

(***************************************************************************)
(* support.sanitizePath and the file path that fileext builds from it.     *)
(* A path is a sequence of characters.                                      *)
(***************************************************************************)
MaxPathLen == 4
max_path_length == 4096
Chars == {"a", ".", "/", "|", ":", "\\"}
Paths == UNION {[1..n -> Chars] : n \in 0..MaxPathLen}

\* path.startswith(old)
startswith(path, old) ==
    Len(path) >= Len(old) /\ SubSeq(path, 1, Len(old)) = old
\* old in path
contains(path, old) ==
    \E i \in 1..Len(path) : startswith(SubSeq(path, i, Len(path)), old)

RECURSIVE replace(_, _)
\* path.replace(old, ''): the occurrences of old, found from the left
\* without overlap, are removed
replace(path, old) ==
    IF path = <<>> THEN <<>>
    ELSE IF startswith(path, old)
    THEN replace(SubSeq(path, Len(old) + 1, Len(path)), old)
    ELSE <<Head(path)>> \o replace(Tail(path), old)

RECURSIVE strip_out(_, _)
\* while path and old in path: path = path.replace(old, '')
strip_out(path, old) ==
    IF path # <<>> /\ contains(path, old)
    THEN strip_out(replace(path, old), old)
    ELSE path

RECURSIVE split_sep(_, _)
\* path.split('/'); cur is the component that is being read
split_sep(path, cur) ==
    IF path = <<>> THEN <<cur>>
    ELSE IF Head(path) = "/" THEN <<cur>> \o split_sep(Tail(path), <<>>)
    ELSE split_sep(Tail(path), Append(cur, Head(path)))

RECURSIVE join_sep(_)
\* '/'.join(comps)
join_sep(comps) ==
    IF comps = <<>> THEN <<>>
    ELSE IF Len(comps) = 1 THEN comps[1]
    ELSE comps[1] \o <<"/">> \o join_sep(Tail(comps))

RECURSIVE new_comps(_, _, _)
\* the loop of posixpath.normpath over the components
new_comps(comps, acc, initial_slashes) ==
    IF comps = <<>> THEN acc
    ELSE LET comp == Head(comps)
             dotdot == <<".", ".">>
         IN  IF comp = <<>> \/ comp = <<".">>
             THEN new_comps(Tail(comps), acc, initial_slashes)
             ELSE IF comp # dotdot
                     \/ (~initial_slashes /\ acc = <<>>)
                     \/ (acc # <<>> /\ acc[Len(acc)] = dotdot)
             THEN new_comps(Tail(comps), Append(acc, comp), initial_slashes)
             ELSE IF acc # <<>>
             THEN new_comps(Tail(comps), SubSeq(acc, 1, Len(acc) - 1),
                            initial_slashes)
             ELSE new_comps(Tail(comps), acc, initial_slashes)

\* os.path.normpath (posix; a path does not start with two slashes here)
normpath(path) ==
    IF path = <<>> THEN <<".">>
    ELSE LET initial_slashes == startswith(path, <<"/">>)
             joined == join_sep(new_comps(split_sep(path, <<>>), <<>>,
                                          initial_slashes))
             out == IF initial_slashes THEN <<"/">> \o joined ELSE joined
         IN  IF out = <<>> THEN <<".">> ELSE out

\* path.rstrip('/')
RECURSIVE rstrip_sep(_)
rstrip_sep(path) ==
    IF path # <<>> /\ path[Len(path)] = "/"
    THEN rstrip_sep(SubSeq(path, 1, Len(path) - 1))
    ELSE path

\* os.path.split: the path up to its last slash, and what follows it
os_path_split(path) ==
    LET slashes == {j \in 1..Len(path) : path[j] = "/"}
        i == IF slashes = {} THEN 0
             ELSE CHOOSE j \in slashes : \A k \in slashes : k <= j
        head == SubSeq(path, 1, i)
        tail == SubSeq(path, i + 1, Len(path))
    IN  <<IF head # <<>> /\ \E j \in 1..Len(head) : head[j] # "/"
          THEN rstrip_sep(head) ELSE head,
          tail>>

\* os.path.join(p, f)
os_path_join(p, f) ==
    IF startswith(f, <<"/">>) THEN f
    ELSE IF p = <<>> \/ p[Len(p)] = "/" THEN p \o f
    ELSE p \o <<"/">> \o f

\* sanitizePath after the four strip loops: the leading slashes go (an
\* empty path has no first character), the rest is normalised, split and
\* joined
sanitize_tail(path) ==
    LET RECURSIVE lstrip(_)
        lstrip(q) == IF q # <<>> /\ q[1] = "/" THEN lstrip(Tail(q)) ELSE q
        stripped == lstrip(path)
        pf == os_path_split(normpath(stripped))
    IN  IF stripped = <<>>
        THEN [exc |-> "IndexError", none |-> FALSE, path |-> <<>>]
        ELSE [exc |-> "None", none |-> FALSE,
              path |-> os_path_join(pf[1], pf[2])]

\* support.sanitizePath
sanitizePath(path) ==
    IF path = <<>> \/ Len(path) > max_path_length
    THEN [exc |-> "None", none |-> TRUE, path |-> <<>>]
    ELSE sanitize_tail(
             strip_out(strip_out(strip_out(strip_out(path, <<"\\">>),
                                           <<".", ".">>), <<"|">>), <<":">>))

\* FileExt.__fileroot
file_root == <<"/", "r">>

\* the file that open(fp) opens: the kernel walks the components of fp
\* (no symbolic links)
resolve(fp) == normpath(fp)

InitPath ==
    /\ threads = NoThreads
    /\ interp = Interpreter
    /\ script = NoNode
    /\ pre = Interpreter
    /\ post = Interpreter
    /\ nevals = 0
    /\ call = "None"
    /\ hostsyms = [n \in {"cmd_"} |-> HostV("cmd_")]
    /\ \E filepath \in Paths :
          host = [filepath |-> filepath, fp |-> sanitizePath(<<>>),
                  opened |-> <<>>]

\* FileExt.readLines_ up to `if not fp: return None`
SanitizePath ==
    /\ call = "None"
    /\ host' = [host EXCEPT !.fp = sanitizePath(host.filepath)]
    /\ call' = "sanitizePath"
    /\ UNCHANGED <<interp, script, pre, post, nevals, hostsyms, threads>>

\* FileExt.readLines_ from `fp = self.__fileroot+'/'+fp` to open(fp)
ReadLines_ ==
    /\ call = "sanitizePath"
    /\ host.fp.exc = "None" /\ ~host.fp.none /\ host.fp.path # <<>>
    /\ host' = [host EXCEPT
                   !.opened = resolve(file_root \o <<"/">> \o host.fp.path)]
    /\ call' = "readLines_"
    /\ UNCHANGED <<interp, script, pre, post, nevals, hostsyms, threads>>

NextPath == SanitizePath \/ ReadLines_

SpecPath == InitPath /\ [][NextPath]_vars

(***************************************************************************)
(* tasksext: one task thread (ThreadTask_.run, statement by statement) and *)
(* the thread that starts, pauses and stops it.  threads holds the task's  *)
(* fields, the position of the task thread (open: created and not started; *)
(* dead: run() has returned), the position of the caller inside stop_,     *)
(* whether tasks_stop_ has returned True, and the handler calls counted    *)
(* in all and since then (counted up to MaxCalls).                          *)
(***************************************************************************)
MaxCalls == 3

\* the Interpreter when the script has defined the handler f and opened
\* the task with it
opened_task ==
    eval(Interpreter,
         Module(<<FunctionDef("f", <<"x">>, <<>>, "None", "None",
                              <<Return(Ld("x"))>>)>>))

InitTasks ==
    /\ interp = opened_task
    /\ script = NoNode
    /\ pre = Interpreter
    /\ post = Interpreter
    /\ nevals = 0
    /\ call = "None"
    /\ hostsyms = [n \in {"cmd_"} |-> HostV("cmd_")]
    /\ host = NoHost
    /\ \E delay \in 0..1 :
          threads = [pc |-> "open", delay |-> delay, stop |-> FALSE,
                     quitFlag |-> FALSE, paused |-> FALSE, running |-> FALSE,
                     ret |-> FALSE, main |-> "idle", stopped |-> FALSE,
                     ncalls |-> 0, after |-> 0]


\* self.__callHandler() is entered: the call is counted
callHandler(handling) ==
    /\ threads' = [threads EXCEPT
                      !.pc = handling,
                      !.ncalls = IF @ < MaxCalls THEN @ + 1 ELSE @,
                      !.after = IF threads.stopped /\ @ < MaxCalls
                                THEN @ + 1 ELSE @]
    /\ UNCHANGED <<interp, script, pre, post, nevals, call, hostsyms, host>>

\* self.__callHandler() from handleEvents on: the handler is evaluated on
\* the task thread, and run goes on (with self.__stop = True when the
\* delay is 0)
CallHandler ==
    /\ threads.pc \in {"handler_once", "handler"}
    /\ interp' = handleEvents(interp, "f", 1)
    /\ threads' = IF threads.pc = "handler_once"
                  THEN [threads EXCEPT !.stop = TRUE, !.pc = "exit"]
                  ELSE [threads EXCEPT !.pc = "check_stop"]
    /\ UNCHANGED <<script, pre, post, nevals, call, hostsyms, host>>

\* tasks_start_: Thread.start() returns when the new thread exists
TasksStart ==
    /\ threads.pc = "open" /\ threads.main = "idle"
    /\ threads' = [threads EXCEPT !.pc = "started"]
    /\ UNCHANGED <<interp, script, pre, post, nevals, call, hostsyms, host>>

\* run: self.__stop = False
RunReset ==
    /\ threads.pc = "started"
    /\ threads' = [threads EXCEPT !.stop = FALSE, !.pc = "run_clear"]
    /\ UNCHANGED <<interp, script, pre, post, nevals, call, hostsyms, host>>

\* run: self.__quitFlag.clear(); self.__running = True; if self.__delay == 0
RunClear ==
    /\ threads.pc = "run_clear"
    /\ threads' = [threads EXCEPT
                      !.quitFlag = FALSE, !.running = TRUE,
                      !.pc = IF threads.delay = 0 THEN "once" ELSE "while"]
    /\ UNCHANGED <<interp, script, pre, post, nevals, call, hostsyms, host>>

\* run: self.__callHandler() when the delay is 0
RunOnce ==
    /\ threads.pc = "once"
    /\ callHandler("handler_once")

\* run: while self.__stop is False
RunWhile ==
    /\ threads.pc = "while"
    /\ threads' = [threads EXCEPT
                      !.pc = IF threads.stop THEN "exit" ELSE "loop_clear"]
    /\ UNCHANGED <<interp, script, pre, post, nevals, call, hostsyms, host>>

\* run: self.__quitFlag.clear()
RunLoopClear ==
    /\ threads.pc = "loop_clear"
    /\ threads' = [threads EXCEPT !.quitFlag = FALSE, !.pc = "call"]
    /\ UNCHANGED <<interp, script, pre, post, nevals, call, hostsyms, host>>

\* run: if self.__paused is False: self.__callHandler()
RunCall ==
    /\ threads.pc = "call"
    /\ IF threads.paused
       THEN /\ threads' = [threads EXCEPT !.pc = "check_stop"]
            /\ UNCHANGED <<interp, script, pre, post, nevals, call,
                           hostsyms, host>>
       ELSE callHandler("handler")

\* run: if self.__stop: break
RunCheckStop ==
    /\ threads.pc = "check_stop"
    /\ threads' = [threads EXCEPT
                      !.pc = IF threads.stop THEN "exit" ELSE "wait"]
    /\ UNCHANGED <<interp, script, pre, post, nevals, call, hostsyms, host>>

\* run: ret = self.__quitFlag.wait(self.__delay): True when the flag is
\* set, False when the delay has passed
RunWait ==
    /\ threads.pc = "wait"
    /\ threads' = [threads EXCEPT !.ret = threads.quitFlag, !.pc = "check_ret"]
    /\ UNCHANGED <<interp, script, pre, post, nevals, call, hostsyms, host>>

\* run: if ret and self.__stop: break
RunCheckRet ==
    /\ threads.pc = "check_ret"
    /\ threads' = [threads EXCEPT
                      !.pc = IF threads.ret /\ threads.stop THEN "exit"
                             ELSE "while"]
    /\ UNCHANGED <<interp, script, pre, post, nevals, call, hostsyms, host>>

\* run: self.__running = False, and the thread ends
RunExit ==
    /\ threads.pc = "exit"
    /\ threads' = [threads EXCEPT !.running = FALSE, !.pc = "dead"]
    /\ UNCHANGED <<interp, script, pre, post, nevals, call, hostsyms, host>>

\* tasks_stop_ of a started task, up to stop_'s self.__stop = True
StopSet ==
    /\ threads.main = "idle" /\ threads.pc # "open" /\ ~threads.stopped
    /\ threads' = [threads EXCEPT !.stop = TRUE, !.main = "stop_"]
    /\ UNCHANGED <<interp, script, pre, post, nevals, call, hostsyms, host>>

\* stop_: self.__quitFlag.set(); return True
StopReturn ==
    /\ threads.main = "stop_"
    /\ threads' = [threads EXCEPT !.quitFlag = TRUE, !.main = "idle",
                                  !.stopped = TRUE, !.after = 0]
    /\ UNCHANGED <<interp, script, pre, post, nevals, call, hostsyms, host>>

\* tasks_pause_(flag) of a started task
Pause(flag) ==
    /\ threads.main = "idle" /\ threads.pc # "open"
    /\ threads' = [threads EXCEPT !.paused = flag, !.quitFlag = TRUE]
    /\ UNCHANGED <<interp, script, pre, post, nevals, call, hostsyms, host>>

\* the steps of the task thread
TaskThread ==
    \/ RunReset
    \/ RunClear
    \/ RunOnce
    \/ RunWhile
    \/ RunLoopClear
    \/ RunCall
    \/ RunCheckStop
    \/ RunWait
    \/ RunCheckRet
    \/ RunExit

NextTasks ==
    \/ TasksStart
    \/ TaskThread
    \/ CallHandler
    \/ StopSet
    \/ StopReturn
    \/ \E flag \in BOOLEAN : Pause(flag)

SpecTasks == InitTasks /\ [][NextTasks]_vars

\* a thread that can run is scheduled, and the handler's eval returns
SpecTasksFair ==
    /\ SpecTasks
    /\ WF_vars(TaskThread)
    /\ []<>(threads.pc \notin {"handler_once", "handler"})

\* Interpreter.getSymbol
getSymbol(s, name) ==
    IF name \in DOMAIN s.symtable THEN s.symtable[name] ELSE NoneV

\* NThreads host threads, each with a key of its own and a value, call
\* addSymbol(key, value) and then getSymbol(key)
NThreads == 3
InitThreads ==
    /\ interp = Interpreter
    /\ script = NoNode
    /\ pre = Interpreter
    /\ post = Interpreter
    /\ nevals = 0
    /\ call = "None"
    /\ hostsyms = [n \in {"cmd_"} |-> HostV("cmd_")]
    /\ host = NoHost
    /\ \E vals \in [1..NThreads -> {IntV(1), IntV(2)}] :
          threads = [lock |-> 0,
                     pc |-> [t \in 1..NThreads |-> "addSymbol"],
                     key |-> [t \in 1..NThreads |->
                                <<"k1", "k2", "k3", "k4", "k5">>[t]],
                     val |-> vals,
                     got |-> [t \in 1..NThreads |-> NoRet]]

\* `with symlock:` of addSymbol and of getSymbol: the thread waits until
\* no other thread owns the lock
ThreadAcquire(t) ==
    /\ threads.pc[t] \in {"addSymbol", "getSymbol"}
    /\ threads.lock = 0
    /\ threads' = [threads EXCEPT
                      !.lock = t,
                      !.pc[t] = IF @ = "addSymbol" THEN "add_locked"
                                ELSE "get_locked"]
    /\ UNCHANGED <<interp, script, pre, post, nevals, call, hostsyms, host>>

\* self.symtable[name] = val
ThreadStore(t) ==
    /\ threads.pc[t] = "add_locked"
    /\ interp' = addSymbol(interp, threads.key[t], threads.val[t])
    /\ threads' = [threads EXCEPT !.pc[t] = "add_stored"]
    /\ UNCHANGED <<script, pre, post, nevals, call, hostsyms, host>>

\* the body of getSymbol
ThreadRead(t) ==
    /\ threads.pc[t] = "get_locked"
    /\ threads' = [threads EXCEPT
                      !.got[t] = getSymbol(interp, threads.key[t]),
                      !.pc[t] = "get_returned"]
    /\ UNCHANGED <<interp, script, pre, post, nevals, call, hostsyms, host>>

\* the end of the with block
ThreadRelease(t) ==
    /\ threads.pc[t] \in {"add_stored", "get_returned"}
    /\ threads' = [threads EXCEPT
                      !.lock = 0,
                      !.pc[t] = IF @ = "add_stored" THEN "getSymbol"
                                ELSE "done"]
    /\ UNCHANGED <<interp, script, pre, post, nevals, call, hostsyms, host>>

NextThreads ==
    \/ \E t \in 1..NThreads : ThreadAcquire(t)
    \/ \E t \in 1..NThreads : ThreadStore(t)
    \/ \E t \in 1..NThreads : ThreadRead(t)
    \/ \E t \in 1..NThreads : ThreadRelease(t)

SpecThreads == InitThreads /\ [][NextThreads]_vars

\* the host defines a procedure and calls it, for each signature and call
NextCall ==
    \E sc \in IF call = "None" THEN BindScripts ELSE Followups : Eval(sc)

SpecCall == Init /\ [][NextCall]_vars

(***************************************************************************)
(* The table lock.  Two host threads drive the operations of Interpreter   *)
(* and ApyEngine that touch the symbol table; each operation is the        *)
(* sequence of its sections, a section being either the body of one        *)
(* `with symlock:` block or a stretch of code outside any, with the table  *)
(* accesses it makes in order.                                             *)
(***************************************************************************)
Locked(accs) == [locked |-> TRUE, accs |-> accs]
Unlocked(accs) == [locked |-> FALSE, accs |-> accs]

\* the sections of the Interpreter's operations and node handlers
interp_sections(op) ==
    CASE op = "addSymbol" -> <<Locked(<<"write">>)>>
      [] op = "delSymbol" -> <<Locked(<<"read", "delete">>)>>
      [] op = "getSymbol" -> <<Locked(<<"read", "read">>)>>
      [] op = "on_name" -> <<Locked(<<"read", "read">>)>>
      [] op = "node_assign" -> <<Locked(<<"write">>)>>
      [] op = "on_delete" -> <<Locked(<<"delete">>)>>
      [] op = "on_functiondef" -> <<Locked(<<"write">>)>>
      \* Procedure.__call__: the snapshot, the overwrite and the restore
      [] op = "procedure_call" ->
            <<Locked(<<"read", "read">>), Locked(<<"write">>),
              Locked(<<"write">>)>>
      \* on_listcomp: the save of the target, the store of each value,
      \* the element (an on_name), the restore
      [] op = "on_listcomp" ->
            <<Unlocked(<<"read", "read", "write">>),
              Locked(<<"read", "read">>), Unlocked(<<"write">>)>>

\* the sections of the engine's host API
engine_sections(op) ==
    \* ApyEngine.delProc: the two tests, then Interpreter.delSymbol
    CASE op = "delProc" ->
            <<Unlocked(<<"read", "read">>), Locked(<<"read", "delete">>)>>
      [] op = "clearProcs" -> <<Unlocked(<<"read", "read">>)>>
      [] op = "isDef_" -> <<Unlocked(<<"read">>)>>
      [] op = "listDefs_" -> <<Unlocked(<<"read", "read">>)>>

EngineOps == {"delProc", "clearProcs", "isDef_", "listDefs_"}
table_sections(op) ==
    IF op \in EngineOps THEN engine_sections(op) ELSE interp_sections(op)

TableOps ==
    {"addSymbol", "delSymbol", "getSymbol", "on_name", "node_assign",
     "on_delete", "on_functiondef", "procedure_call", "on_listcomp"}
    \cup EngineOps

\* no access made yet
NoAccess == [t |-> 0, op |-> "None", acc |-> "None", owner |-> 0]

InitLock ==
    /\ interp = Interpreter
    /\ script = NoNode
    /\ pre = Interpreter
    /\ post = Interpreter
    /\ nevals = 0
    /\ call = "None"
    /\ hostsyms = [n \in {"cmd_"} |-> HostV("cmd_")]
    /\ host = NoHost
    /\ threads = [lock |-> 0,
                  op |-> [t \in 1..2 |-> "None"],
                  section |-> [t \in 1..2 |-> 0],
                  acc |-> [t \in 1..2 |-> 0],
                  last |-> NoAccess]

\* the thread's current section
section_of(t) == table_sections(threads.op[t])[threads.section[t]]

\* a thread calls an operation
LockCall(t, op) ==
    /\ threads.op[t] = "None"
    /\ threads' = [threads EXCEPT !.op[t] = op, !.section[t] = 1,
                                  !.acc[t] = 0]
    /\ UNCHANGED <<interp, script, pre, post, nevals, call, hostsyms, host>>

\* the thread enters its section: `with symlock:` waits for the lock and
\* takes it, code outside a with block just goes on
LockEnter(t) ==
    /\ threads.op[t] # "None"
    /\ threads.acc[t] = 0
    /\ section_of(t).locked => threads.lock = 0
    /\ threads' = [threads EXCEPT
                      !.lock = IF section_of(t).locked THEN t ELSE @,
                      !.acc[t] = 1]
    /\ UNCHANGED <<interp, script, pre, post, nevals, call, hostsyms, host>>

\* the next table access of the section: a store binds x to the thread's
\* number, a delete removes x; last records the access and the owner of
\* the lock at that moment
LockAccess(t) ==
    /\ threads.op[t] # "None"
    /\ threads.acc[t] \in DOMAIN section_of(t).accs
    /\ LET kind == section_of(t).accs[threads.acc[t]]
       IN  /\ interp' =
                 CASE kind = "write" -> addSymbol(interp, "x", IntV(t))
                   [] kind = "delete" ->
                        [interp EXCEPT !.symtable = symdel(@, "x")]
                   [] OTHER -> interp
           /\ threads' = [threads EXCEPT
                             !.acc[t] = @ + 1,
                             !.last = [t |-> t, op |-> threads.op[t],
                                       acc |-> kind, owner |-> threads.lock]]
    /\ UNCHANGED <<script, pre, post, nevals, call, hostsyms, host>>

\* the end of the section: the with block releases the lock; after the
\* last section the operation returns
LockLeave(t) ==
    /\ threads.op[t] # "None"
    /\ threads.acc[t] = Len(section_of(t).accs) + 1
    /\ threads' = [threads EXCEPT
                      !.lock = IF section_of(t).locked THEN 0 ELSE @,
                      !.acc[t] = 0,
                      !.section[t] =
                          IF @ = Len(table_sections(threads.op[t]))
                          THEN 0 ELSE @ + 1,
                      !.op[t] =
                          IF threads.section[t] = Len(table_sections(@))
                          THEN "None" ELSE @]
    /\ UNCHANGED <<interp, script, pre, post, nevals, call, hostsyms, host>>

NextLock ==
    \/ \E t \in 1..2, op \in TableOps : LockCall(t, op)
    \/ \E t \in 1..2 : LockEnter(t)
    \/ \E t \in 1..2 : LockAccess(t)
    \/ \E t \in 1..2 : LockLeave(t)

SpecLock == InitLock /\ [][NextLock]_vars

(***************************************************************************)
(* Procedure.__call__ next to another thread.  The caller's thread goes    *)
(* through the three `with symlock:` blocks of the call (snapshot,         *)
(* overwrite, restore) and the body between them; a second host thread     *)
(* calls addSymbol and delSymbol, whose with blocks wait for the lock.     *)
(* threads holds the caller's position and locals and what the second      *)
(* thread did during the call: the positions at which its calls took       *)
(* effect and the values it stored.                                        *)
(***************************************************************************)
MaxForeign == 2

\* the script has defined f(x, y) and the host has bound x
defined_f ==
    addSymbol(eval(Interpreter,
                   Module(<<FunctionDef("f", <<"x", "y">>, <<>>, "None",
                                        "None", <<Return(Ld("x"))>>)>>)),
              "x", IntV(1))

InitShadow ==
    /\ interp = defined_f
    /\ script = NoNode
    /\ pre = Interpreter
    /\ post = Interpreter
    /\ nevals = 0
    /\ call = "None"
    /\ hostsyms = [n \in {"cmd_"} |-> HostV("cmd_")]
    /\ host = NoHost
    /\ threads = [pc |-> "idle", lock |-> 0, symlocals |-> <<>>,
                  shadowpars |-> <<>>, nforeign |-> 0, at |-> {},
                  wrote |-> <<>>]

\* f(a, b): the arguments are bound to the parameters
ShadowCall(a, b) ==
    /\ threads.pc = "idle"
    /\ threads' = [threads EXCEPT
                      !.pc = "snapshot",
                      !.symlocals =
                          bind_locals(interp.symtable["f"],
                                      <<IntV(a), IntV(b)>>, <<>>).symlocals]
    /\ pre' = interp
    /\ call' = "f"
    /\ UNCHANGED <<interp, script, post, nevals, hostsyms, host>>

\* `with symlock:` in front of the snapshot, the overwrite and the restore
ShadowAcquire ==
    /\ threads.pc \in {"snapshot", "overwrite", "restore"}
    /\ threads.lock = 0
    /\ threads' = [threads EXCEPT
                      !.lock = 1,
                      !.pc = CASE @ = "snapshot" -> "snapshot_locked"
                               [] @ = "overwrite" -> "overwrite_locked"
                               [] OTHER -> "restore_locked"]
    /\ UNCHANGED <<interp, script, pre, post, nevals, call, hostsyms, host>>

\* shadowpars[k] = symtable[k] for the locals that are in the table
ShadowSnapshot ==
    /\ threads.pc = "snapshot_locked"
    /\ LET names == {threads.symlocals[i][1] : i \in DOMAIN threads.symlocals}
       IN  threads' = [threads EXCEPT
                          !.lock = 0,
                          !.pc = "overwrite",
                          !.shadowpars =
                              [k \in names \cap DOMAIN interp.symtable |->
                                 interp.symtable[k]]]
    /\ UNCHANGED <<interp, script, pre, post, nevals, call, hostsyms, host>>

\* symtable.update(symlocals); then retval = None and _calldepth += 1
ShadowOverwrite ==
    /\ threads.pc = "overwrite_locked"
    /\ interp' = [interp EXCEPT
                     !.symtable = symupdate(@, threads.symlocals, 1),
                     !.retval = NoRet,
                     !.calldepth = @ + 1]
    /\ threads' = [threads EXCEPT !.lock = 0, !.pc = "body"]
    /\ UNCHANGED <<script, pre, post, nevals, call, hostsyms, host>>

\* the loop over self.body; a native exception leaves __call__
ShadowBody ==
    /\ threads.pc = "body"
    /\ interp' = proc_body([interp EXCEPT !.log = <<>>, !.fuel = MaxFuel],
                           interp.symtable["f"], 1)
    /\ threads' = [threads EXCEPT
                      !.pc = IF ok(interp') THEN "restore" ELSE "raised"]
    /\ UNCHANGED <<script, pre, post, nevals, call, hostsyms, host>>

\* the restore loops; then _calldepth -= 1 and the return
ShadowRestore ==
    /\ threads.pc = "restore_locked"
    /\ LET r == restore_symbols(interp, threads.symlocals,
                                threads.shadowpars, 1)
       IN  /\ interp' = IF ok(r) THEN [r EXCEPT !.calldepth = @ - 1] ELSE r
           /\ threads' = [threads EXCEPT
                             !.lock = 0,
                             !.pc = IF ok(r) THEN "returned" ELSE "raised"]
    /\ post' = interp'
    /\ UNCHANGED <<script, pre, nevals, call, hostsyms, host>>

\* the caller is inside __call__, past the snapshot
in_call == threads.pc \in {"overwrite", "overwrite_locked", "body", "restore"}

\* the second thread's addSymbol(name, val): its with block runs when the
\* lock is free
ForeignAddSymbol(name, val) ==
    /\ in_call
    /\ threads.lock = 0
    /\ threads.nforeign < MaxForeign
    /\ interp' = addSymbol(interp, name, val)
    /\ threads' = [threads EXCEPT
                      !.nforeign = @ + 1,
                      !.at = @ \cup {threads.pc},
                      !.wrote = symset(@, name, val)]
    /\ UNCHANGED <<script, pre, post, nevals, call, hostsyms, host>>

\* the second thread's delSymbol(name)
ForeignDelSymbol(name) ==
    /\ in_call
    /\ threads.lock = 0
    /\ threads.nforeign < MaxForeign
    /\ interp' = delSymbol(interp, name)
    /\ threads' = [threads EXCEPT
                      !.nforeign = @ + 1,
                      !.at = @ \cup {threads.pc},
                      !.wrote = symdel(@, name)]
    /\ UNCHANGED <<script, pre, post, nevals, call, hostsyms, host>>

NextShadow ==
    \/ \E a, b \in {7, 8} : ShadowCall(a, b)
    \/ ShadowAcquire
    \/ ShadowSnapshot
    \/ ShadowOverwrite
    \/ ShadowBody
    \/ ShadowRestore
    \/ \E name \in {"x", "y"}, val \in {IntV(5), IntV(6)} :
          ForeignAddSymbol(name, val)
    \/ \E name \in {"x", "y"} : ForeignDelSymbol(name)

SpecShadow == InitShadow /\ [][NextShadow]_vars

(***************************************************************************)
(* Loops, and the statements that end them.  The host binds x and y or     *)
(* not, evaluates a loop script and then one more statement.  The loop     *)
(* test carries the label test and every loop body starts with the         *)
(* statement labelled iter.                                                *)
(***************************************************************************)
\* the loop test `x`, labelled
TestX == [k |-> "name", id |-> "x", ctx |-> "Load", lbl |-> "test"]

\* while x: pass; x += -1; <tail>   else: pass
LoopTails ==
    {<<>>, <<Continue>>, <<Break>>,
     <<If(Ld("y"), <<Continue>>, <<>>), Pass("b2")>>,
     <<If(Ld("y"), <<Break>>, <<>>), Pass("b2")>>}
ContinueScripts ==
    {Module(<<While(TestX,
                    <<Pass("iter"), AugAssign(St("x"), Num(-1))>> \o tail,
                    <<Pass("orelse")>>)>>) : tail \in LoopTails}

\* def g(): <loop with a return in its body>, then m = g()
ReturnLoops ==
    {While(TestX, <<Pass("iter"), Return(Num(v))>>, <<>>) : v \in {0, 7}}
    \cup {While(TestX, <<Pass("iter"), AugAssign(St("x"), Num(-1)),
                         If(Ld("y"), <<Return(Num(7))>>, <<>>)>>, <<>>),
          For(St("k"), Pair(Num(1), Num(2)),
              <<Pass("iter"), Return(Ld("k"))>>, <<>>),
          For(St("k"), Pair(Num(1), Num(2)),
              <<Pass("iter"), If(Ld("y"), <<Return(Ld("k"))>>, <<>>)>>,
              <<>>)}
ReturnLoopScripts ==
    {Module(<<FunctionDef("g", <<>>, <<>>, "None", "None", <<loop>>),
              Assign(<<St("m")>>, Call(Ld("g"), <<>>, <<>>), "")>>) :
        loop \in ReturnLoops}

\* break or continue with no loop around it, then a statement
StrayScripts ==
    {Module(<<st, Assign(<<St("m")>>, Num(1), "after")>>) :
        st \in {Break, Continue, Pass("b1"),
                If(Ld("y"), <<Break>>, <<>>)}}

LoopScripts == ContinueScripts \cup ReturnLoopScripts \cup StrayScripts

\* the statement of the later eval()
LaterScript == Module(<<Assign(<<St("n")>>, Num(2), "later")>>)

\* the host's next eval() after the loop script
EvalLater ==
    /\ call = "eval"
    /\ interp' = eval(interp, LaterScript)
    /\ script' = LaterScript
    /\ pre' = interp
    /\ post' = interp'
    /\ nevals' = nevals + 1
    /\ call' = "eval_later"
    /\ UNCHANGED <<hostsyms, threads, host>>

NextLoop ==
    \/ \E sc \in LoopScripts : Eval(sc)
    \/ EvalLater
    \/ \E name \in {"x", "y"}, v \in 0..2 : AddSymbol(name, IntV(v))

SpecLoop == Init /\ [][NextLoop]_vars

(***************************************************************************)
(* Statement kinds in the body of a Procedure.  The host binds x or not    *)
(* and evaluates `def h(): <statement>; return 9` followed by `m = h()`.   *)
(* The first statement of the body carries the label stmt.                 *)
(***************************************************************************)
\* one statement per kind the body loop can meet
KindStmts ==
    {Pass("stmt"),
     Try(<<Assign(<<St("q")>>, Num(1), "")>>,
         <<ExceptHandler("None", "None", <<Pass("h")>>)>>, <<>>, <<>>),
     Raise("ValueError"),
     Delete(<<Name("x", "Del")>>),
     FunctionDef("inner", <<>>, <<>>, "None", "None", <<Return(Num(1))>>),
     Expr(Call(Attribute(Ld("o"), "foo", "Load"), <<>>, <<>>)),
     Expr(Num(1)),
     Assign(<<St("q")>>, Num(1), ""),
     AugAssign(St("x"), Num(1)),
     If(Ld("x"), <<Pass("b")>>, <<>>),
     Return(Ld("x"))}
BodyScripts ==
    {Module(<<FunctionDef("h", <<>>, <<>>, "None", "None",
                          <<[st EXCEPT !.lbl = "stmt"], Return(Num(9))>>),
              Assign(<<St("m")>>, Call(Ld("h"), <<>>, <<>>), "")>>) :
        st \in KindStmts}

NextBody ==
    \/ \E sc \in BodyScripts : Eval(sc)
    \/ \E name \in {"x", "y"}, v \in 0..2 : AddSymbol(name, IntV(v))

SpecBody == Init /\ [][NextBody]_vars

(***************************************************************************)
(* The registry lock of an extension (tasksext).  Threads call             *)
(* tasks_open_, tasks_close_, tasks_start_ and shutdown; each action is    *)
(* one step of one call.  threads.lock is 0 when the lock is free and the  *)
(* thread that acquired it otherwise (threading.Lock itself keeps no       *)
(* owner: any thread may release it).  host.released and host.modified     *)
(* keep, for the last release and the last change of the registry, the     *)
(* thread that did it and the thread that held the lock at that moment.    *)
(***************************************************************************)
NRegThreads == 2
MaxRegCalls == 2
RegThreads == 1..NRegThreads
RegOps == {"tasks_open_", "tasks_close_", "tasks_start_", "shutdown"}
TaskNames == {"a", "b"}
NoEvent == [by |-> 0, owner |-> 0]

InitRegistry ==
    /\ threads = [lock |-> 0,
                  pc |-> [t \in RegThreads |-> "idle"],
                  op |-> [t \in RegThreads |-> "None"],
                  name |-> [t \in RegThreads |-> "None"],
                  calls |-> [t \in RegThreads |-> 0]]
    /\ host = [tasks |-> {}, started |-> {},
               released |-> NoEvent, modified |-> NoEvent]
    /\ interp = Interpreter
    /\ script = NoNode
    /\ pre = Interpreter
    /\ post = Interpreter
    /\ nevals = 0
    /\ call = "None"
    /\ hostsyms = [n \in {"cmd_"} |-> HostV("cmd_")]

\* support.unlock__: if lock.locked(): lock.release()
unlock__(th, t) == [th EXCEPT !.lock = 0]

\* a thread enters one of the script functions, or the host unloads the
\* extension
RegCall(t, op, tname) ==
    /\ threads.pc[t] = "idle"
    /\ threads.calls[t] < MaxRegCalls
    /\ threads' = [threads EXCEPT !.pc[t] = "acquire", !.op[t] = op,
                                  !.name[t] = tname, !.calls[t] = @ + 1]
    /\ UNCHANGED <<interp, script, pre, post, nevals, call, hostsyms, host>>

\* self.__lock.acquire(blocking=True, timeout=...) returns True
RegAcquire(t) ==
    /\ threads.pc[t] = "acquire"
    /\ threads.lock = 0
    /\ threads' = [threads EXCEPT !.lock = t, !.pc[t] = "locked"]
    /\ UNCHANGED <<interp, script, pre, post, nevals, call, hostsyms, host>>

\* the timed acquire returns False: the lock was held for the whole
\* timeout.  The script functions return an error; shutdown() does not look
\* at the result and goes on
RegTimeout(t) ==
    /\ threads.pc[t] = "acquire"
    /\ threads.lock # 0
    /\ threads' = [threads EXCEPT
                      !.pc[t] = IF threads.op[t] = "shutdown" THEN "locked"
                                ELSE "idle"]
    /\ UNCHANGED <<interp, script, pre, post, nevals, call, hostsyms, host>>

\* the statements between the acquire and the first unlock__
RegBody(t) ==
    LET tname == threads.name[t]
        op == threads.op[t]
        known == tname \in host.tasks
        modify(tasks) == [host EXCEPT
                             !.tasks = tasks,
                             !.modified = [by |-> t, owner |-> threads.lock]]
    IN  /\ threads.pc[t] = "locked"
        /\ CASE op = "tasks_open_" ->
                  \* self.__tasks[tname] = b
                  /\ host' = IF known THEN host
                             ELSE modify(host.tasks \cup {tname})
                  /\ threads' = [threads EXCEPT !.pc[t] = "unlock"]
             [] op = "tasks_close_" ->
                  \* close_(), then join(2.0): RuntimeError for a thread
                  \* that was never started
                  /\ host' = host
                  /\ threads' = [threads EXCEPT
                                    !.pc[t] = IF known /\ tname \in host.started
                                              THEN "del" ELSE "unlock"]
             [] op = "tasks_start_" ->
                  /\ host' = host
                  /\ threads' = [threads EXCEPT
                                    !.pc[t] = IF known THEN "unlock_cmd"
                                              ELSE "unlock"]
             [] op = "shutdown" ->
                  \* stop_ and close_ every task; self.__tasks.clear()
                  /\ host' = modify({})
                  /\ threads' = [threads EXCEPT !.pc[t] = "unlock"]
        /\ UNCHANGED <<interp, script, pre, post, nevals, call, hostsyms>>

\* tasks_close_: del self.__tasks[tname] after the join; a KeyError goes to
\* the except clause, which calls unlock__ as well
RegDel(t) ==
    LET tname == threads.name[t]
    IN  /\ threads.pc[t] = "del"
        /\ host' = IF tname \in host.tasks
                   THEN [host EXCEPT
                            !.tasks = @ \ {tname},
                            !.modified = [by |-> t, owner |-> threads.lock]]
                   ELSE host
        /\ threads' = [threads EXCEPT !.pc[t] = "unlock"]
        /\ UNCHANGED <<interp, script, pre, post, nevals, call, hostsyms>>

\* unlock__(self.__lock), in the body or in the except clause
RegUnlock(t) ==
    /\ threads.pc[t] \in {"unlock", "unlock_cmd"}
    /\ threads' = [unlock__(threads, t) EXCEPT
                      !.pc[t] = IF threads.pc[t] = "unlock_cmd"
                                THEN "dispatch" ELSE "idle"]
    /\ host' = IF threads.lock # 0
               THEN [host EXCEPT
                        !.released = [by |-> t, owner |-> threads.lock]]
               ELSE host
    /\ UNCHANGED <<interp, script, pre, post, nevals, call, hostsyms>>

\* tasks_cmd after its unlock__: ret = self.__tasks[tname].start().  A
\* KeyError (the task is gone) or a RuntimeError (the thread was started
\* before) goes to the except clause, which calls unlock__
RegDispatch(t) ==
    LET tname == threads.name[t]
        raises == tname \notin host.tasks \/ tname \in host.started
    IN  /\ threads.pc[t] = "dispatch"
        /\ host' = IF raises THEN host
                   ELSE [host EXCEPT !.started = @ \cup {tname}]
        /\ threads' = [threads EXCEPT
                          !.pc[t] = IF raises THEN "unlock" ELSE "idle"]
        /\ UNCHANGED <<interp, script, pre, post, nevals, call, hostsyms>>

NextRegistry ==
    \E t \in RegThreads :
        \/ \E op \in RegOps, tname \in TaskNames : RegCall(t, op, tname)
        \/ RegAcquire(t)
        \/ RegTimeout(t)
        \/ RegBody(t)
        \/ RegDel(t)
        \/ RegUnlock(t)
        \/ RegDispatch(t)

SpecRegistry == InitRegistry /\ [][NextRegistry]_vars

(***************************************************************************)
(* The abort and stop flags.  The host calls abortrun() and stoprun() at   *)
(* any time between its other calls: eval of a statement text, loadScript_ *)
(* and addSymbol.                                                          *)
(***************************************************************************)
\* ApyEngine.abortrun -> Interpreter.abortrun
Abortrun ==
    /\ ~interp.abort
    /\ interp' = abortrun(interp)
    /\ UNCHANGED <<script, pre, post, nevals, call, hostsyms, threads, host>>

\* Interpreter.stoprun
Stoprun ==
    /\ ~interp.stop
    /\ interp' = stoprun(interp)
    /\ UNCHANGED <<script, pre, post, nevals, call, hostsyms, threads, host>>

\* the statement texts of this family: a statement, and a text that
\* ast.parse rejects
FlagTexts ==
    {Text(1, Module(<<st>>), "None") :
        st \in {Assign(<<St("y")>>, Num(1), "a"), Expr(Num(1)), Undefined,
                AugAssign(St("x"), Num(1))}}
    \cup {Text(1, NoNode, "SyntaxError"),
          Text(max_statement_length + 1, Module(<<Expr(Num(1))>>), "None")}

\* the host's eval() calls after the first
EvalTextLater(text, show_errors) ==
    /\ nevals \in 1..MaxEvals
    /\ interp' = [eval_str(interp, text, show_errors) EXCEPT !.pyexc = "None"]
    /\ script' = [text EXCEPT !.tree = IF text.exc = "None" THEN @ ELSE NoNode]
    /\ pre' = interp
    /\ post' = eval_str(interp, text, show_errors)
    /\ nevals' = nevals + 1
    /\ call' = IF show_errors THEN "eval_str" ELSE "eval_str_quiet"
    /\ UNCHANGED <<hostsyms, threads, host>>

NextFlags ==
    \/ Abortrun
    \/ Stoprun
    \/ \E text \in FlagTexts, show_errors \in BOOLEAN :
          EvalText(text, show_errors)
    \/ \E text \in FlagTexts, show_errors \in BOOLEAN :
          EvalTextLater(text, show_errors)
    \/ \E sc \in LoadScripts : LoadScript(sc)
    \/ \E name \in {"x"} : AddSymbol(name, IntV(2))

SpecFlags == Init /\ [][NextFlags]_vars

(***************************************************************************)
(* What the properties read off the last eval().                           *)
(***************************************************************************)
evaluated == call = "eval"
\* the script is one statement of one of the kinds
single(kinds) ==
    evaluated /\ Len(script.body) = 1 /\ script.body[1].k \in kinds
stmt1 == script.body[1]
\* how often a statement with the label was dispatched
ran(lbl) ==
    Cardinality({i \in DOMAIN post.log :
                    post.log[i].e = "run" /\ post.log[i].a = lbl})
faulted == Len(post.error) > 0
has_fault(cls) == \E i \in DOMAIN post.error : post.error[i].exc = cls
blocked(attr) == attr \in UNSAFE_ATTRS \/ is_dunder(attr)
performed(kind, attr) ==
    \E i \in DOMAIN post.log : post.log[i].e = kind /\ post.log[i].a = attr
\* the entry of the name is the same before and after the eval()
same(n) ==
    IF n \in DOMAIN pre.symtable
    THEN n \in DOMAIN post.symtable /\ post.symtable[n] = pre.symtable[n]
    ELSE n \notin DOMAIN post.symtable

\* the targets of an assignment statement and the names among them
targets_of(st) == IF st.k = "augassign" THEN <<st.target>> ELSE st.targets
target_names(t) ==
    CASE t.k = "name" -> {t.id}
      [] t.k = "tuple" -> {t.elts[i].id : i \in DOMAIN t.elts}
      [] OTHER -> {}
assigned_names(st) ==
    UNION {target_names(targets_of(st)[i]) : i \in DOMAIN targets_of(st)}
\* the value of the assignment evaluates and fits the shape of each target
assignable(st) ==
    IF st.k = "augassign"
    THEN /\ st.target.k = "name"
         /\ st.target.id \in DOMAIN pre.symtable
         /\ pre.symtable[st.target.id].t = "int"
    ELSE \A i \in DOMAIN st.targets :
            st.targets[i].k = "tuple" => st.value.k = "tuple"

\* C1: every assignment statement with a read-only name among its targets
\* raises a NameError-kind fault and leaves every symbol-table entry but
\* errline_ with the value it had before the statement.
C1_ReadonlyAssignLeavesTable ==
    (/\ single({"assign", "augassign"})
     /\ assignable(stmt1)
     /\ assigned_names(stmt1) \cap pre.readonly_symbols # {})
    => /\ has_fault("NameError")
       /\ \A n \in (DOMAIN pre.symtable \cup DOMAIN post.symtable)
                   \ {"errline_"} : same(n)

\* x = pi = 1 from a table without x: the fault is raised, and x is bound
C1_ChainedTargetAssigned ==
    /\ script = Module(<<Assign(<<St("x"), St("pi")>>, Num(1), "")>>)
    /\ "x" \notin DOMAIN pre.symtable
    /\ has_fault("NameError")
    /\ post.symtable["pi"] = pre.symtable["pi"]
    /\ "x" \in DOMAIN post.symtable /\ post.symtable["x"] = IntV(1)

\* C2: the symbol-table keys ending in `_` (errline_ apart) and their
\* values are exactly those the host established through addSymbol/regcmd:
\* no script statement creates, rebinds or deletes such a key.
C2_UnderscoreNamesHostOnly ==
    [n \in {k \in DOMAIN interp.symtable : endswith_(k)} \ {"errline_"} |->
        interp.symtable[n]] = hostsyms

\* tmp_ = 1 from a table without tmp_: no fault, and tmp_ is bound
C2_ScriptCreatesUnderscoreName ==
    /\ script = Module(<<Assign(<<St("tmp_")>>, Num(1), "")>>)
    /\ "tmp_" \notin DOMAIN pre.symtable
    /\ ~faulted
    /\ "tmp_" \in DOMAIN post.symtable /\ post.symtable["tmp_"] = IntV(1)
    /\ "tmp_" \notin DOMAIN hostsyms

\* C3: loading an attribute whose name is dunder-shaped or in the unsafe
\* list raises an AttributeError-kind fault whatever the type of the value
\* it is loaded from, and getattr is never performed for such a name.
C3_BlockedAttributeLoad ==
    /\ \A i \in DOMAIN post.log :
          post.log[i].e = "getattr" => ~blocked(post.log[i].a)
    /\ (/\ single({"expr"})
        /\ stmt1.value.k = "attribute"
        /\ blocked(stmt1.value.attr)
        /\ ran("attribute") > 0
        /\ \/ stmt1.value.value.k = "constant"
           \/ stmt1.value.value.id \in DOMAIN pre.symtable)
       => faulted /\ post.error[1].exc = "AttributeError"

\* o.__class__: the load ended in the AttributeError fault and getattr was
\* not performed
C3_BlockedLoadDenied ==
    /\ single({"expr"})
    /\ stmt1.value.k = "attribute"
    /\ stmt1.value.attr = "__class__"
    /\ stmt1.value.value = Ld("o")
    /\ ran("attribute") = 1
    /\ faulted /\ post.error[1].exc = "AttributeError"
    /\ ~performed("getattr", "__class__")

\* C4: an assignment to an attribute with a dunder-shaped or unsafe-listed
\* name is denied with a fault, and setattr is never performed for such a
\* name.
C4_BlockedAttributeStore ==
    (/\ single({"assign"})
     /\ \E i \in DOMAIN stmt1.targets :
           /\ stmt1.targets[i].k = "attribute"
           /\ stmt1.targets[i].value = Ld("o")
           /\ blocked(stmt1.targets[i].attr))
    => /\ faulted
       /\ \A i \in DOMAIN post.log :
             post.log[i].e = "setattr" => ~blocked(post.log[i].a)

\* o.__len__ = 1: no fault, setattr was performed and the host object has
\* the attribute
C4_BlockedStorePerformed ==
    /\ script = Module(<<Assign(<<Attribute(Ld("o"), "__len__", "Store")>>,
                                Num(1), "")>>)
    /\ ~faulted
    /\ performed("setattr", "__len__")
    /\ "__len__" \in DOMAIN post.heap
    /\ "__len__" \notin DOMAIN pre.heap

\* the script is `def f(params): body` followed by `m = f(...)`
is_call_script ==
    /\ evaluated
    /\ Len(script.body) = 2
    /\ script.body[1].k = "functiondef"
    /\ script.body[2].k = "assign"
    /\ script.body[2].value.k = "call"
params == script.body[1].args
params_restored == \A i \in DOMAIN params : same(params[i])

\* C5: when a Procedure call returns without a fault, the symbol table
\* restricted to the bound parameter names is what it was before the call:
\* an existing name has its old value, a new name is absent again.
C5_ParamsRestoredOnReturn ==
    (is_call_script /\ ran("call") = 1 /\ ~faulted /\ ~post.diverged)
    => params_restored

\* def f(x, y): x = 7; return x, called with x bound and y not: the call
\* returned 7 and left x and y as they were
C5_ShadowedAndNewParam ==
    /\ is_call_script
    /\ params = <<"x", "y">>
    /\ script.body[1].body = <<Assign(<<St("x")>>, Num(7), "b"),
                               Return(Ld("x"))>>
    /\ ran("call") = 1 /\ ran("b") = 1 /\ ~faulted
    /\ "x" \in DOMAIN pre.symtable /\ "y" \notin DOMAIN pre.symtable
    /\ post.symtable["m"] = IntV(7)
    /\ post.symtable["x"] = pre.symtable["x"]
    /\ "y" \notin DOMAIN post.symtable

\* C6: when a Procedure call ends because a statement of its body raised a
\* fault or a native exception, every shadowed parameter name has its
\* pre-call value again and every other parameter name is removed.
C6_ParamsRestoredOnFault ==
    (is_call_script /\ ran("call") = 1 /\ faulted /\ ~post.diverged)
    => params_restored

\* def f(x, y): x = 7; zz, called with x bound and y not: after the fault
\* x is 7 and y is still bound
C6_FaultLeavesParams ==
    /\ is_call_script
    /\ params = <<"x", "y">>
    /\ script.body[1].body = <<Assign(<<St("x")>>, Num(7), "b"), Undefined>>
    /\ ran("call") = 1 /\ ran("b") = 1 /\ has_fault("NameError")
    /\ "x" \in DOMAIN pre.symtable /\ "y" \notin DOMAIN pre.symtable
    /\ post.symtable["x"] = IntV(7)
    /\ "y" \in DOMAIN post.symtable

\* C7: for every try statement whose body starts executing, each statement
\* of its finally block is executed exactly once, however the body ended.
C7_FinallyExactlyOnce ==
    evaluated => ran("fin1") = ran("try") /\ ran("fin2") = ran("try")

\* a try whose body raised a fault that no handler matches: the finally
\* block was not executed
C7_FinallySkipped ==
    /\ single({"try"})
    /\ stmt1.body[1] = Undefined
    /\ Len(stmt1.handlers) = 1 /\ stmt1.handlers[1].type = "KeyError"
    /\ ran("try") = 1
    /\ has_fault("NameError")
    /\ ran("h1") = 0 /\ ran("fin1") = 0 /\ ran("fin2") = 0

\* a statement of the try body raised before any handler body started
body_faulted ==
    \E i \in DOMAIN post.log :
        /\ post.log[i].e = "except"
        /\ \A j \in 1..(i - 1) : post.log[j].e # "handler"
handler_starts == {i \in DOMAIN post.log : post.log[i].e = "handler"}

\* C8: when a statement of a try body faults, no later statement of the
\* body is executed, at most one handler body runs, the fault channel is
\* empty when it starts, and the else block runs if and only if no body
\* statement faulted.
C8_TryBodyHandlersElse ==
    (single({"try"}) /\ ran("try") = 1)
    => /\ body_faulted => ran("b2") = 0
       /\ Cardinality(handler_starts) <= 1
       /\ \A i \in handler_starts : post.log[i].n = 0
       /\ (ran("else") = 1) <=> ~body_faulted

\* del zz in a try body with a bare except: the KeyError is raised, the
\* next body statement and the else block run, the handler does not
C8_BodyGoesOnAfterException ==
    /\ single({"try"})
    /\ stmt1.body[1] = Delete(<<Name("zz", "Del")>>)
    /\ Len(stmt1.handlers) = 1 /\ stmt1.handlers[1].type = "None"
    /\ ran("try") = 1
    /\ performed("except", "KeyError")
    /\ ran("b2") = 1 /\ ran("else") = 1 /\ ran("h1") = 0

\* C9: a fault raised by a script `raise X(...)` in a try whose only
\* handler names a different class is not handled: no handler body runs,
\* the fault channel stays non-empty and the fault leaves the try.
C9_TypedHandlerMatchesClass ==
    (/\ single({"try"})
     /\ ran("try") = 1
     /\ stmt1.body[1].k = "raise"
     /\ Len(stmt1.handlers) = 1
     /\ stmt1.handlers[1].type # "None"
     /\ ~isinstance_exc(stmt1.body[1].exc, stmt1.handlers[1].type))
    => handler_starts = {} /\ faulted

\* raise ValueError in a try with `except KeyError`: the handler body ran
\* and the fault channel is empty
C9_OtherClassHandled ==
    /\ single({"try"})
    /\ stmt1.body[1] = Raise("ValueError")
    /\ Len(stmt1.handlers) = 1 /\ stmt1.handlers[1].type = "KeyError"
    /\ ran("try") = 1
    /\ ran("h1") = 1
    /\ ~faulted

\* C10: a loop that ends through break executes no statement of its else
\* block; a loop that ends by exhaustion or by a false test executes each
\* statement of the else block exactly once, also when the last iteration
\* ended with continue.
C10_LoopElse ==
    (single({"for", "while"}) /\ ran("loop") = 1 /\ ran("try") = 0
     /\ ~faulted /\ ~post.diverged)
    => IF ran("break") > 0 THEN ran("orelse") = 0 ELSE ran("orelse") = 1

\* for x in (1, 0): continue, with an else block: both iterations ran, the
\* loop was exhausted without a fault, the else block did not run
C10_ElseSkippedAfterContinue ==
    /\ single({"for"})
    /\ stmt1.body = <<Continue>>
    /\ ran("loop") = 1 /\ ran("continue") = 2 /\ ran("break") = 0
    /\ ~faulted
    /\ ran("orelse") = 0

\* the numbers of handlers dispatched when abortrun() was called during
\* the last eval()
aborted_at ==
    {post.log[i].n : i \in {j \in DOMAIN post.log :
                                post.log[j].e = "abortrun"}}
signalled == evaluated /\ aborted_at # {}
has_msg(text) ==
    \E i \in DOMAIN post.error : post.error[i].msg.text = text

\* C11: once abortrun() has been called, the next run() call raises an
\* 'execution aborted' fault before it dispatches a node handler: no
\* handler is dispatched after the call, and the fault is in the channel.
C11_AbortRaisesBeforeDispatch ==
    signalled => /\ post.ndispatch \in aborted_at
                 /\ has_msg("execution aborted")

\* x += 1 with abortrun() called before the operands are evaluated: the
\* run() of the operand raises AttributeError, and no 'execution aborted'
\* fault is recorded
C11_AbortWithoutAbortFault ==
    /\ script = Module(<<AugAssign(St("x"), Num(1))>>)
    /\ signalled
    /\ post.ndispatch \in aborted_at
    /\ has_fault("AttributeError")
    /\ ~has_msg("execution aborted")

\* the last host call was loadScript_
loaded == call = "loadScript_"

sig == script.body[1]
the_call == script.body[2].value
npos == Len(the_call.args)
nreq == Len(sig.args)
posvalue(i) == the_call.args[i].value
kwnames == {the_call.keywords[i][1] : i \in DOMAIN the_call.keywords}
kwvalue(n) ==
    the_call.keywords[CHOOSE i \in DOMAIN the_call.keywords :
                         the_call.keywords[i][1] = n][2].value
defnames == {sig.defaults[i][1] : i \in DOMAIN sig.defaults}
\* the required parameters past the positionals that a keyword supplies
promoted_names ==
    IF npos < nreq THEN {sig.args[i] : i \in (npos + 1)..nreq} \cap kwnames
    ELSE {}
npositional == npos + Cardinality(promoted_names)
leftover == kwnames \ promoted_names
\* the four arity faults
too_few == npositional < nreq
duplicate == {sig.args[i] : i \in DOMAIN sig.args} \cap leftover # {}
too_many ==
    sig.vararg = "None" /\ npositional - nreq > Len(sig.defaults)
extra_keywords == sig.kwarg = "None" /\ leftover \ defnames # {}
arity_fault == too_few \/ duplicate \/ too_many \/ extra_keywords
\* the body is `return (<every parameter>)`
returns_params ==
    sig.body = <<Return(Tuple([i \in DOMAIN param_names(sig) |->
                                 Ld(param_names(sig)[i])], "Load"))>>
\* the binding the call is to produce, in the order of param_names
expected_binding ==
    LET required == [i \in 1..nreq |->
                       IF i <= npos THEN posvalue(i)
                       ELSE kwvalue(sig.args[i])]
        defaulted == [j \in DOMAIN sig.defaults |->
                        IF sig.vararg = "None" /\ npos >= nreq + j
                        THEN posvalue(nreq + j)
                        ELSE IF sig.defaults[j][1] \in leftover
                        THEN kwvalue(sig.defaults[j][1])
                        ELSE sig.defaults[j][2].value]
        vararg == IF sig.vararg = "None" THEN <<>>
                  ELSE <<TupleV([i \in 1..(IF npos > nreq THEN npos - nreq
                                            ELSE 0) |->
                                   posvalue(nreq + i)])>>
        varkw == IF sig.kwarg = "None" THEN <<>>
                 ELSE <<DictV([n \in leftover \ defnames |-> kwvalue(n)])>>
    IN  TupleV(required \o defaulted \o vararg \o varkw)

\* C13: for every signature and every call that passes the arity checks,
\* each required parameter gets the positional argument at its position
\* (after the promotion of keywords), the vararg gets the remaining
\* positionals, each defaulted parameter gets the surplus positional at its
\* position, or else its keyword, or else its default, and the varkw gets
\* the leftover keywords.
C13_BindingOfParameters ==
    (is_call_script /\ returns_params /\ ran("call") = 1 /\ ~faulted)
    => /\ "m" \in DOMAIN post.symtable
       /\ post.symtable["m"] = expected_binding

\* def f(a, c=10), called as f(1, 2, c=23): no fault, c is bound to the
\* keyword and the positional 2 is dropped
C13_KeywordOverridesPositional ==
    /\ is_call_script /\ returns_params
    /\ sig.args = <<"a">> /\ sig.defaults = <<<<"c", Num(10)>>>>
    /\ sig.vararg = "None" /\ sig.kwarg = "None"
    /\ npos = 2 /\ kwnames = {"c"}
    /\ ~faulted
    /\ post.symtable["m"] = TupleV(<<IntV(1), IntV(23)>>)

\* C14: a call faults with a TypeError-kind fault when too few positionals
\* remain after the promotion, when a required name is also a keyword,
\* when surplus positionals exceed the defaulted parameters without a
\* vararg, or when keywords are left over without a varkw; no parameter
\* has been written then: the table is unchanged but for errline_.
C14_ArityFaults ==
    (is_call_script /\ ran("call") = 1 /\ arity_fault)
    => /\ faulted /\ post.error[1].exc = "TypeError"
       /\ \A n \in (DOMAIN pre.symtable \cup DOMAIN post.symtable)
                   \ {"errline_", "f"} : same(n)

\* def f(a, c=10), called as f(1, z=26): the TypeError fault is raised, m
\* is not assigned and neither a nor c is in the table
C14_ExtraKeywordFaults ==
    /\ is_call_script
    /\ sig.args = <<"a">> /\ sig.defaults = <<<<"c", Num(10)>>>>
    /\ sig.kwarg = "None"
    /\ npos = 1 /\ kwnames = {"z"}
    /\ ran("call") = 1
    /\ extra_keywords /\ ~too_few /\ ~duplicate /\ ~too_many
    /\ has_fault("TypeError")
    /\ {"a", "c", "m"} \cap DOMAIN post.symtable = {}

\* the names the statements of the procedure body assign
body_assigned ==
    UNION {assigned_names(sig.body[i]) :
              i \in {j \in DOMAIN sig.body : sig.body[j].k = "assign"}}
all_params == {param_names(sig)[i] : i \in DOMAIN param_names(sig)}

\* C15: with global_funcs False a name that the body of a procedure
\* assigns and that is not a parameter is local to the call: after the
\* return it is absent again, or has its pre-call value.
C15_BodyNamesAreLocal ==
    (is_call_script /\ ~pre.globalsyms /\ ran("call") = 1 /\ ran("b") = 1
     /\ ~faulted)
    => \A n \in body_assigned \ all_params : same(n)

\* def f(a): y = 7; return a, called with y not defined and global_funcs
\* False: after the return y is 7 in the shared table
C15_BodyAssignmentLeaks ==
    /\ is_call_script /\ ~pre.globalsyms
    /\ body_assigned = {"y"} /\ all_params = {"a"}
    /\ ran("call") = 1 /\ ran("b") = 1 /\ ~faulted
    /\ "y" \notin DOMAIN pre.symtable
    /\ post.symtable["m"] = IntV(1)
    /\ "y" \in DOMAIN post.symtable /\ post.symtable["y"] = IntV(7)
    /\ "a" \notin DOMAIN post.symtable

\* the body bound the parameters last to these values: x is 7 where the
\* body assigns it, the argument of the call otherwise
end_of_body(n) ==
    IF n \in body_assigned THEN IntV(7)
    ELSE posvalue(CHOOSE i \in DOMAIN sig.args : sig.args[i] = n)

\* C16: with global_funcs True a call takes no snapshot and does no
\* restore: after the return the parameter names are bound to the values
\* they had at the end of the body; with global_funcs False the parameters
\* are restored.
C16_GlobalFuncsSelectsConvention ==
    (is_call_script /\ ran("call") = 1 /\ ~faulted /\ sig.defaults = <<>>
     /\ npos = nreq /\ all_params \cap pre.readonly_symbols = {})
    => IF pre.globalsyms
       THEN \A n \in all_params :
               /\ n \in DOMAIN post.symtable
               /\ post.symtable[n] = end_of_body(n)
       ELSE params_restored

\* global_funcs True, def f(x, y): x = 7; return x, called as f(1, 2) with
\* x bound and y not: after the return x has its old value and y is absent
C16_RestoredWithGlobalFuncs ==
    /\ is_call_script /\ pre.globalsyms
    /\ sig.args = <<"x", "y">>
    /\ sig.body = <<Assign(<<St("x")>>, Num(7), "b"), Return(Ld("x"))>>
    /\ ran("call") = 1 /\ ran("b") = 1 /\ ~faulted
    /\ "x" \in DOMAIN pre.symtable /\ "y" \notin DOMAIN pre.symtable
    /\ post.symtable["m"] = IntV(7)
    /\ post.symtable["x"] = pre.symtable["x"]
    /\ "y" \notin DOMAIN post.symtable

\* the script is m = [elt for ...]
is_listcomp ==
    evaluated /\ Len(script.body) = 1 /\ script.body[1].k = "assign"
    /\ script.body[1].value.k = "listcomp"
listcomp == script.body[1].value
generator_names ==
    UNION {target_names(listcomp.generators[g].target) :
              g \in DOMAIN listcomp.generators}

\* C17: after a list comprehension every name its generators bind has the
\* value it had before, a name that was undefined is undefined again, and
\* the table has no new key that is not an identifier.
C17_ComprehensionRestoresNames ==
    (is_listcomp /\ ~faulted)
    => /\ \A n \in generator_names : same(n)
       /\ DOMAIN post.symtable \ DOMAIN pre.symtable \subseteq Names

\* m = [x for x in (1, 2)] with x undefined: x is 2 afterwards
C17_GeneratorNameLeaks ==
    /\ is_listcomp /\ ~faulted
    /\ listcomp = ListComp(Ld("x"), <<comprehension(St("x"),
                                         Pair(Num(1), Num(2)), <<>>)>>)
    /\ "x" \notin DOMAIN pre.symtable
    /\ post.symtable["m"] = ListV(<<IntV(1), IntV(2)>>)
    /\ "x" \in DOMAIN post.symtable /\ post.symtable["x"] = IntV(2)

\* the list that nested loops produce: the g-th generator's iterable and
\* conditions are evaluated under the bindings of the generators before it
RECURSIVE nested(_, _, _), nested_from(_, _, _, _, _)
bind_target(s, t, val) ==
    IF t.k = "name" THEN [s EXCEPT !.symtable = symset(@, t.id, val)]
    ELSE [s EXCEPT !.symtable =
             [n \in DOMAIN @ \cup target_names(t) |->
                 IF \E i \in DOMAIN t.elts : t.elts[i].id = n
                 THEN val.v[CHOOSE i \in DOMAIN t.elts : t.elts[i].id = n]
                 ELSE @[n]]]
nested(s, lc, g) ==
    IF g > Len(lc.generators) THEN <<run(s, lc.elt, TRUE).val>>
    ELSE nested_from(s, lc, g, run(s, lc.generators[g].iter, TRUE).val.v, 1)
nested_from(s, lc, g, vals, i) ==
    IF i > Len(vals) THEN <<>>
    ELSE (IF \A c \in DOMAIN lc.generators[g].ifs :
                Truthy(run(bind_target(s, lc.generators[g].target, vals[i]),
                           lc.generators[g].ifs[c], TRUE).val)
          THEN nested(bind_target(s, lc.generators[g].target, vals[i]),
                      lc, g + 1)
          ELSE <<>>)
         \o nested_from(s, lc, g, vals, i + 1)

\* C18: a list comprehension with chained for/if clauses yields the list
\* of the nested loops, in nested-loop order, each iterable and condition
\* evaluated under the current bindings of the generators to its left.
C18_ComprehensionIsNestedLoops ==
    (is_listcomp /\ ~faulted)
    => post.symtable["m"] = ListV(nested(pre, listcomp, 1))

\* m = [(x, y) for x in (1, 2) for y in (x, 3)]: the second iterable is
\* evaluated once, with x = 2, and the list starts with (1, 2)
C18_IterableSeesLastBinding ==
    /\ is_listcomp /\ ~faulted
    /\ listcomp = ListComp(Pair(Ld("x"), Ld("y")),
                           <<comprehension(St("x"), Pair(Num(1), Num(2)), <<>>),
                             comprehension(St("y"), Pair(Ld("x"), Num(3)),
                                           <<>>)>>)
    /\ post.symtable["m"] =
          ListV(<<TupleV(<<IntV(1), IntV(2)>>), TupleV(<<IntV(1), IntV(3)>>),
                  TupleV(<<IntV(2), IntV(2)>>), TupleV(<<IntV(2), IntV(3)>>)>>)
    /\ nested(pre, listcomp, 1)[1] = TupleV(<<IntV(1), IntV(1)>>)

\* the script is m = c0 op1 c1 op2 c2 ...
is_compare ==
    evaluated /\ Len(script.body) = 1 /\ script.body[1].k = "assign"
    /\ script.body[1].value.k = "compare"
chain == script.body[1].value
operand(i) == IF i = 0 THEN chain.left.value ELSE chain.comparators[i].value
pairwise(i) == cmpop(chain.ops[i], operand(i - 1), operand(i)).v
\* the comparators up to the first false comparison
needed == {i \in DOMAIN chain.ops : \A j \in 1..(i - 1) : pairwise(j)}
operand_lbl(i) == chain.comparators[i].lbl

\* C19: a chained comparison evaluates its operands from the left, after
\* a false pairwise comparison no later comparator is evaluated, and the
\* result is the AND of the comparisons made; with a numeric-array module
\* installed or not.
C19_ChainStopsAtFirstFalse ==
    is_compare
    => /\ ran("c0") = 1
       /\ \A i \in DOMAIN chain.ops :
             ran(operand_lbl(i)) = IF i \in needed THEN 1 ELSE 0
       /\ ~faulted
       /\ post.symtable["m"] = BoolV(\A i \in needed : pairwise(i))

\* m = 1 < 0 < 2 without numpy: the comparator 2 is evaluated, m is False
C19_LaterComparatorEvaluated ==
    /\ is_compare /\ ~pre.use_numpy /\ ~faulted
    /\ Len(chain.ops) = 2 /\ ~pairwise(1)
    /\ ran("c1") = 1 /\ ran("c2") = 1
    /\ post.symtable["m"] = BoolV(FALSE)

\* C20: in every interleaving of the threads, each calling addSymbol and
\* then getSymbol with a key of its own, every getSymbol returns the value
\* that the same thread stored.
C20_ThreadsReadOwnValue ==
    \A t \in DOMAIN threads.pc :
        threads.pc[t] \in {"get_returned", "done"}
        => threads.got[t] = threads.val[t]

\* all threads have returned from getSymbol, two of them stored different
\* values, and each one got its own
C20_AllThreadsReturned ==
    /\ DOMAIN threads.pc = 1..NThreads
    /\ \A t \in 1..NThreads :
          threads.pc[t] = "done" /\ threads.got[t] = threads.val[t]
    /\ \E t, u \in 1..NThreads : threads.val[t] # threads.val[u]

\* the script is one function definition
is_def == single({"functiondef"})
reserved_name(n) ==
    endswith_(n) \/ ~valid_symbol_name(n) \/ n \in pre.readonly_symbols

\* C24: a function definition whose name ends in `_`, is not a valid symbol
\* name or is read-only raises a NameError fault, and the table entry of
\* the name is afterwards what it was before (absent, or the old value).
C24_ReservedDefNameFaults ==
    (is_def /\ reserved_name(stmt1.name))
    => /\ has_fault("NameError")
       /\ same(stmt1.name)

\* def tmp_(): return 1, with tmp_ not bound: a NameError fault, and no
\* entry tmp_
C24_UnderscoreDefRejected ==
    /\ is_def /\ stmt1.name = "tmp_"
    /\ "tmp_" \notin DOMAIN pre.symtable
    /\ "tmp_" \notin pre.readonly_symbols
    /\ has_fault("NameError")
    /\ "tmp_" \notin DOMAIN post.symtable

\* the script defines f and assigns to one of its attributes
is_setattr_script ==
    /\ evaluated /\ Len(script.body) = 3
    /\ script.body[1].k = "functiondef"
    /\ script.body[2].k = "assign"
    /\ script.body[2].targets[1].k = "attribute"
\* the Procedure as on_functiondef built it
as_defined ==
    Procedure("f", 0, script.body[1].body, script.body[1].args, <<>>,
              "None", "None")

\* C25: a Procedure is immutable after creation: an attribute assignment
\* on it (name, argnames, kwargs, vararg, varkws, body), also one a script
\* makes through an attribute target, raises a fault and leaves the field
\* unchanged.
C25_ProcedureIsImmutable ==
    is_setattr_script
    => /\ faulted
       /\ post.symtable["f"] = as_defined

\* def f(x): return x; f.body = 7; m = 5: no fault, the statement after
\* the assignment runs, and the body of f is 7
C25_ProcedureFieldAssigned ==
    /\ is_setattr_script
    /\ script.body[2].targets[1].attr = "body"
    /\ ~faulted
    /\ ran("set") = 1 /\ ran("after") = 1
    /\ post.symtable["f"].body = IntV(7)
    /\ post.symtable["m"] = IntV(5)

\* C30: the call depth after a call node equals the call depth before it
\* for every outcome, so it is 0 when no call is in progress, and a return
\* at top level faults and leaves the return slot empty.
C30_CallDepthBalanced ==
    evaluated
    => /\ post.calldepth = 0
       /\ single({"return"}) => (faulted /\ post.retval = NoRet)

\* def f(x): x = 7; <an undefined name>, m = f(1): the body faults, and the
\* call depth is 1 after the eval
C30_DepthLeftAfterFault ==
    /\ is_call_script /\ pre.calldepth = 0
    /\ ran("call") = 1 /\ ran("b") = 1
    /\ has_fault("NameError")
    /\ post.calldepth = 1

(***************************************************************************)
(* eval() of a statement text.                                             *)
(***************************************************************************)
text_evaluated == call = "eval_str"
raised_to_caller == post.pyexc # "None"
written ==
    \E i \in DOMAIN post.log : post.log[i] = Ev("err_writer", "errmsg", 0)

\* C23: with raise_errors False and show_errors True, eval of a statement
\* text raises nothing to its caller, for a text over the length cap, a text
\* that does not parse and a statement that faults; it returns the
\* statement's value, or the error text after writing it to the error stream.
C23_EvalNeverRaises ==
    text_evaluated
    => /\ ~raised_to_caller
       /\ faulted => (post.val = StrV("errmsg") /\ written)

\* a text one character over the cap: eval raises ValueError, and nothing
\* is written or recorded
C23_OverlongTextRaises ==
    /\ text_evaluated
    /\ script.len = max_statement_length + 1
    /\ post.pyexc = "ValueError"
    /\ ~written /\ ~faulted

(***************************************************************************)
(* regcmd and a script statement of another thread.                        *)
(***************************************************************************)
\* C22: no script statement of another thread starts in a state where a
\* command name is bound to its function and is not read-only, and when
\* regcmd returns True the name is in the symbol table and in
\* readonly_symbols.
C22_RegcmdIsAtomic ==
    /\ evaluated
       => \A n \in DOMAIN pre.symtable :
             pre.symtable[n].t = "host" => n \in pre.readonly_symbols
    /\ (threads.pc = "done" /\ threads.ret) => threads.inboth

\* x = 1 runs after addSymbol("x", func) and before "x" is read-only: the
\* assignment raises no fault and replaces the command
C22_ScriptReplacesCommand ==
    /\ evaluated /\ threads.pc = "added" /\ threads.name = "x"
    /\ script = Module(<<Assign(<<St("x")>>, Num(1), "")>>)
    /\ pre.symtable["x"] = HostV("x") /\ "x" \notin pre.readonly_symbols
    /\ ~faulted /\ post.symtable["x"] = IntV(1)

(***************************************************************************)
(* Event handlers and the script of the main thread.                       *)
(***************************************************************************)
\* the eval of the main thread's script with no other thread
alone == eval(pre, script)

\* C21: no handler is evaluated through handleEvents while the eval of
\* another thread is in progress on the same Interpreter, so the fault
\* list, the return slot and the interrupt sentinel that the main thread's
\* eval leaves are those its script produces alone.
C21_HandlersWaitForEval ==
    /\ ~threads.clash
    /\ evaluated
       => /\ post.error = alone.error
          /\ post.retval = alone.retval
          /\ post.interrupt = alone.interrupt

\* def f(x): return x; zz; y = 1 on the main thread: zz faults, the handler
\* f(1) is evaluated before the exception reaches eval, and the NameError
\* of zz is gone from the fault list that eval reports
C21_HandlerResetsFaultList ==
    /\ evaluated /\ threads.clash
    /\ script.body[1].body = <<Return(Ld("x"))>>
    /\ script.body[2] = Undefined
    /\ Len(alone.error) > 1 /\ alone.error[1].node = "name"
    /\ Len(post.error) = 1 /\ post.error[1].node = "module"

(***************************************************************************)
(* clearProcs.                                                              *)
(***************************************************************************)
protected(k) == in_list(k, host.persistprocs) \/ k \in host.arg
procs_of(s) == {k \in DOMAIN s.symtable : s.symtable[k].t = "proc"}

\* C26: clearProcs(exception_list) returns, and then the only Procedures
\* in the symbol table are those on the persist list or in exception_list,
\* and every other entry and every protected Procedure is as it was.
C26_ClearProcsClears ==
    call = "clearProcs"
    => /\ host.raised = "None"
       /\ \A k \in procs_of(post) : protected(k)
       /\ \A k \in DOMAIN pre.symtable :
             (k \notin procs_of(pre) \/ protected(k))
             => (k \in DOMAIN post.symtable
                 /\ post.symtable[k] = pre.symtable[k])

\* f and m are defined, m is persistent, clearProcs() is called with an
\* empty exception list: it raises NameError and f is still defined
C26_ClearProcsRaises ==
    /\ call = "clearProcs" /\ host.arg = {}
    /\ procs_of(pre) = {"f", "m"} /\ host.persistprocs = <<"m">>
    /\ host.raised = "NameError"
    /\ procs_of(post) = {"f", "m"}

(***************************************************************************)
(* unloadExtension_.                                                        *)
(***************************************************************************)
\* ExtensionMgr.isExtLoaded_
isExtLoaded_(ename) == ename \in host.activeExtensions

unloaded ==
    /\ call = "unloadExtension_" /\ host.wasloaded /\ host.ret = "True"

\* C27: when unloadExtension_(e) has returned True for a loaded extension,
\* isExtLoaded_(e) is False and none of the extension's commands is in the
\* symbol table or in readonly_symbols.
C27_UnloadRemovesCommands ==
    unloaded
    => /\ ~isExtLoaded_(host.ename)
       /\ cmddict \cap DOMAIN interp.symtable = {}
       /\ cmddict \cap interp.readonly_symbols = {}

\* queueext is loaded and unloaded: unloadExtension_ returns True,
\* isExtLoaded_ is False, and queue_open_ and queue_len_ are still bound
\* to the extension's functions and read-only
C27_CommandsOutliveExtension ==
    /\ unloaded /\ host.ename = "queueext"
    /\ ~isExtLoaded_("queueext")
    /\ \A k \in cmddict :
          /\ k \in DOMAIN interp.symtable /\ interp.symtable[k] = HostV(k)
          /\ k \in interp.readonly_symbols

(***************************************************************************)
(* sanitizePath.                                                            *)
(***************************************************************************)
returned_path == call # "None" /\ host.fp.exc = "None" /\ ~host.fp.none

\* C28: the path that sanitizePath returns has no `..` component, no
\* backslash, `|` or `:`, and no leading `/`, and the file opened as
\* file_root + '/' + path is file_root or lies under it.
C28_SanitizedPathStaysInside ==
    /\ returned_path
       => /\ \A i \in DOMAIN split_sep(host.fp.path, <<>>) :
                split_sep(host.fp.path, <<>>)[i] # <<".", ".">>
          /\ \A i \in DOMAIN host.fp.path :
                host.fp.path[i] \notin {"\\", "|", ":"}
          /\ ~startswith(host.fp.path, <<"/">>)
    /\ call = "readLines_"
       => \/ host.opened = file_root
          \/ startswith(host.opened, file_root \o <<"/">>)

\* the path .|./ : the `|` goes after the `..` test, the path .. is
\* returned, and /r/.. opens /
C28_ParentComponentReturned ==
    /\ call = "readLines_"
    /\ host.filepath = <<".", "|", ".", "/">>
    /\ host.fp.path = <<".", ".">>
    /\ host.opened = <<"/">>

(***************************************************************************)
(* tasks_stop_.                                                             *)
(***************************************************************************)
\* C29: once tasks_stop_ has returned True for a started task, the task
\* thread calls its handler at most once more, and the thread ends, for
\* every interleaving of the stop with the task thread.
C29_StopEndsTask ==
    /\ [](threads.stopped => threads.after <= 1)
    /\ (threads.stopped ~> threads.pc = "dead")

\* stop_ ran before run() began: run() has cleared __stop, and the handler
\* has been called twice since tasks_stop_ returned True
C29_StopLostBeforeRun ==
    /\ threads.stopped /\ threads.main = "idle"
    /\ ~threads.stop /\ ~threads.quitFlag
    /\ threads.pc = "check_stop"
    /\ interp = handleEvents(opened_task, "f", 1)
    /\ threads.after = 2

(***************************************************************************)
(* The first record of the fault list.                                     *)
(***************************************************************************)
\* C31: once the fault list has a first record, no fault raised later
\* while unwinding changes that record's message: after an eval() that
\* faulted, the first record carries the message with which it was
\* appended.
C31_FirstFaultIsAuthoritative ==
    (evaluated /\ faulted) => post.error[1].msg = post.first_msg

\* a fault raised in a procedure body, wrapped by the call that ran it:
\* the first record is still the body's, its message is the call's
C31_CallRewritesFirstMessage ==
    /\ evaluated
    /\ Len(post.error) > 1
    /\ post.first_msg.text = "name is not defined"
    /\ post.error[1].exc = "NameError"
    /\ post.error[1].msg.text = "Error running function call"

(***************************************************************************)
(* Table accesses and the table lock.                                      *)
(***************************************************************************)
\* C32: every read, write and delete of the symbol table made by a node
\* handler or by the engine's host API is made while the calling thread
\* holds the table lock.
C32_AccessesHoldLock ==
    threads.last.t # 0 => threads.last.owner = threads.last.t

\* a list comprehension stores its target while the other thread is inside
\* a `with symlock:` block
C32_ListcompStoresUnderForeignLock ==
    /\ threads.last.op = "on_listcomp"
    /\ threads.last.acc = "write"
    /\ threads.last.owner \notin {0, threads.last.t}

(***************************************************************************)
(* The three critical sections of a Procedure call.                        *)
(***************************************************************************)
\* C33: a Procedure call does not hold the table lock between its
\* snapshot, its overwrite and its restore, nor while the body runs, and
\* when the call returns every shadowed name that another thread stored
\* with addSymbol during the call has the value of the snapshot again.
C33_SnapshotOverwritesForeignStore ==
    /\ threads.pc \in {"overwrite", "body", "restore"} => threads.lock = 0
    /\ threads.pc = "returned" =>
          \A n \in DOMAIN threads.wrote \cap DOMAIN threads.shadowpars :
             /\ n \in DOMAIN post.symtable
             /\ post.symtable[n] = threads.shadowpars[n]

\* the second thread stored x between the snapshot and the overwrite and
\* again between the body and the restore; the call returned and x is 1
\* as before the call
C33_ForeignStoreLost ==
    /\ threads.pc = "returned"
    /\ {"overwrite", "restore"} \subseteq threads.at
    /\ "x" \in DOMAIN threads.wrote
    /\ threads.wrote["x"] # threads.shadowpars["x"]
    /\ post.symtable["x"] = IntV(1)

(***************************************************************************)
(* Loops: continue, return, and break or continue outside a loop.          *)
(***************************************************************************)
\* the i-th log entry is the dispatch of the statement with the label
dispatched(i, lbl) == post.log[i].e = "run" /\ post.log[i].a = lbl
is_while == single({"while"}) /\ lbl_of(stmt1.test) = "test"

\* C34: in a while loop every iteration is preceded by an evaluation of
\* the loop test made after the previous iteration started, also when the
\* previous iteration ended with continue (and the loop ends when that
\* test is false, so x, counted down from a value >= 0, never drops
\* below zero).
C34_TestBeforeEveryIteration ==
    is_while =>
       /\ \A i \in DOMAIN post.log :
             dispatched(i, "iter") =>
                \E j \in 1..(i - 1) :
                   /\ dispatched(j, "test")
                   /\ \A k \in (j + 1)..(i - 1) : ~dispatched(k, "iter")
       /\ ("x" \in DOMAIN post.symtable /\ post.symtable["x"].t = "int")
             => post.symtable["x"].v >= 0

\* while x: pass; x += -1; continue with x = 1: the test was evaluated
\* once and the body ran again and again, x went below zero
C34_IterationWithoutTest ==
    /\ is_while
    /\ stmt1.body[Len(stmt1.body)].k = "continue"
    /\ "x" \in DOMAIN pre.symtable
    /\ pre.symtable["x"] = IntV(1)
    /\ ran("test") = 1
    /\ ran("iter") > 2
    /\ post.symtable["x"].v < 0

\* the script defines g with one loop as its body and calls it; the loop
\* and the expression of its return statement
is_return_loop ==
    /\ evaluated
    /\ Len(script.body) = 2
    /\ script.body[1].k = "functiondef"
    /\ script.body[1].name = "g"
the_loop == script.body[1].body[1]
last_stmt == the_loop.body[Len(the_loop.body)]
return_expr ==
    IF last_stmt.k = "return" THEN last_stmt.value
    ELSE last_stmt.body[1].value
\* the value of the return expression in the first iteration
returned_value ==
    IF return_expr.k = "constant" THEN return_expr.value ELSE IntV(1)
\* the return statement is reached in the first iteration
returns_at_once ==
    /\ last_stmt.k = "if" =>
          "y" \in DOMAIN pre.symtable /\ Truthy(pre.symtable["y"])
    /\ the_loop.k = "while" =>
          "x" \in DOMAIN pre.symtable /\ Truthy(pre.symtable["x"])

\* C35: a return executed in the first iteration of a while or for loop of
\* a procedure body ends the loop: the call terminates and yields the
\* returned value, the body started once, the test was evaluated once, and
\* the loop target keeps the value of that iteration.
C35_ReturnEndsLoop ==
    (is_return_loop /\ returns_at_once) =>
       /\ ~post.diverged
       /\ ~faulted
       /\ ran("iter") = 1
       /\ ran("test") <= 1
       /\ "m" \in DOMAIN post.symtable
       /\ post.symtable["m"] = returned_value
       /\ the_loop.k = "for" => post.symtable["k"] = IntV(1)

\* for k in (1, 2): pass; return k: the call returned 1 without a fault
\* and the target k was assigned 2 afterwards
C35_TargetAssignedAfterReturn ==
    /\ is_return_loop
    /\ the_loop.k = "for"
    /\ last_stmt.k = "return"
    /\ ~faulted /\ ~post.diverged
    /\ post.symtable["m"] = IntV(1)
    /\ post.symtable["k"] = IntV(2)

\* the host's later eval() has returned
evaluated_later == call = "eval_later"

\* C36: when eval() has returned, no loop is executing and the interrupt
\* sentinel is neither Break nor Continue; a statement that follows a
\* break or continue outside a loop is dispatched, and so is the statement
\* of the next eval().
C36_NoStrayInterrupt ==
    /\ ((evaluated \/ evaluated_later) /\ ~post.diverged) =>
          post.interrupt \notin {"Break", "Continue"}
    /\ (evaluated /\ Len(script.body) = 2 /\ lbl_of(script.body[2]) = "after"
        /\ ~faulted)
          => ran("after") = 1
    /\ (evaluated_later /\ ~pre.diverged) => ran("later") = 1

\* `break` at module level was evaluated without a fault, the sentinel
\* stayed Break, and the next eval() dispatched nothing and bound nothing
C36_LaterEvalSkipped ==
    /\ evaluated_later
    /\ pre.interrupt = "Break"
    /\ Len(pre.error) = 0
    /\ post.ndispatch = 0
    /\ ran("later") = 0
    /\ "n" \notin DOMAIN post.symtable
    /\ post.interrupt = "Break"

(***************************************************************************)
(* The abort and stop flags.                                               *)
(***************************************************************************)
\* the last host call was an eval() of a text or a loadScript_, and it got
\* as far as calling run(): the text was within the cap and parsed
host_ran == call \in {"eval_str", "eval_str_quiet", "loadScript_"}
reached_run ==
    \/ loaded
    \/ /\ script.len <= max_statement_length
       /\ script.exc = "None"
\* the abort flag and the stop flag stay set once they are
sticky ==
    /\ interp.abort => interp'.abort
    /\ interp.stop => interp'.stop
\* what a call that started with the stop flag set did: nothing
stopped_run ==
    /\ post.val = NoneV
    /\ post.ndispatch = 0
    /\ post.error = IF loaded THEN pre.error ELSE <<>>
    /\ post.symtable = pre.symtable
\* what a call that started with only the abort flag set did: it raised
\* the abort fault before any handler was dispatched
aborted_run ==
    /\ post.ndispatch = 0
    /\ has_msg("execution aborted")
    /\ post.symtable = [pre.symtable EXCEPT !["errline_"] = post.symtable["errline_"]]

\* C37 as stated: no operation clears the abort or the stop flag; after
\* stoprun() every later eval() or run() returns None without dispatching
\* a handler and without recording a fault, also when abortrun() was called
\* as well; after abortrun() alone every later eval() or run() raises the
\* abort fault.
C37_EveryEvalSeesFlags ==
    /\ (host_ran /\ pre.stop) => stopped_run
    /\ (host_ran /\ pre.abort /\ ~pre.stop) => aborted_run

\* C37, amended: the same for every later run(), and for every later
\* eval() that gets as far as calling run().
C37_FlagsSticky ==
    /\ [][sticky]_vars
    /\ [](/\ (host_ran /\ reached_run /\ pre.stop) => stopped_run
          /\ (host_ran /\ reached_run /\ pre.abort /\ ~pre.stop)
                => aborted_run)

\* the second eval() after abortrun() and stoprun(): it returned None,
\* dispatched nothing and recorded nothing, and both flags are still set
C37_StopWinsOverAbort ==
    /\ text_evaluated
    /\ nevals = 2
    /\ reached_run
    /\ pre.abort /\ pre.stop
    /\ stopped_run
    /\ interp.abort /\ interp.stop

(***************************************************************************)
(* The arguments of a call and the parameters they reach.                  *)
(***************************************************************************)
\* the values the call supplies: the positionals 1, 2, ... and the
\* keywords 21, 22, ..., all different from each other and from the
\* defaults
supplied ==
    {posvalue(i) : i \in 1..npos} \cup {kwvalue(n) : n \in kwnames}
\* how often the value is found in the parameters the body returned: as a
\* parameter's value, inside the vararg tuple, or inside the varkw dict
times_bound(v) ==
    LET m == post.symtable["m"].v
        inside(e) ==
            CASE e.t = "tuple" -> Cardinality({i \in DOMAIN e.v : e.v[i] = v})
              [] e.t = "dict" -> Cardinality({n \in DOMAIN e.v : e.v[n] = v})
              [] OTHER -> IF e = v THEN 1 ELSE 0
        RECURSIVE sum(_)
        sum(i) == IF i > Len(m) THEN 0 ELSE inside(m[i]) + sum(i + 1)
    IN  sum(1)
\* a defaulted parameter gets a surplus positional and a keyword as well
both_ways ==
    /\ sig.vararg = "None"
    /\ \E j \in DOMAIN sig.defaults :
          npos >= nreq + j /\ sig.defaults[j][1] \in kwnames

\* C38: a call that does not fault has bound every supplied positional and
\* keyword argument exactly once, to a parameter, into the vararg or into
\* the varkw; a call that supplies a defaulted parameter both positionally
\* and by keyword faults.
C38_NoArgumentDiscarded ==
    (is_call_script /\ returns_params /\ ran("call") = 1)
    => /\ faulted \/ (/\ "m" \in DOMAIN post.symtable
                      /\ \A v \in supplied : times_bound(v) = 1)
       /\ both_ways => faulted

\* def f(a, c=10, d=11), called as f(1, 2, 3, c=23): no fault, the body
\* returned (1, 23, 3), and the positional 2 reached no parameter
C38_SurplusPositionalDropped ==
    /\ is_call_script /\ returns_params
    /\ sig.args = <<"a">> /\ Len(sig.defaults) = 2
    /\ sig.vararg = "None" /\ sig.kwarg = "None"
    /\ npos = 3 /\ kwnames = {"c"}
    /\ both_ways
    /\ ~faulted
    /\ post.symtable["m"] = TupleV(<<IntV(1), IntV(23), IntV(3)>>)
    /\ times_bound(IntV(2)) = 0

is_body_script == evaluated /\ script \in BodyScripts
\* the first statement of the body of h
body_stmt == script.body[1].body[1]

\* C39: when the procedure h is called, the first statement of its body is
\* passed to run(), whatever its kind: the call does not fail before the
\* statement is dispatched.
C39_EveryKindDispatched ==
    is_body_script => ran("stmt") = 1

\* def h(): pass; return 9, then m = h(): the call ended with an
\* AttributeError, the pass statement was never dispatched, and m was not
\* assigned
C39_PassNeverDispatched ==
    /\ is_body_script
    /\ body_stmt.k = "pass"
    /\ ran("stmt") = 0
    /\ has_fault("AttributeError")
    /\ "m" \notin DOMAIN post.symtable

\* the thread is between its acquire and its unlock__
in_critical(t) == threads.pc[t] \in {"locked", "del"}

\* C40: the registry lock is released only by the thread that holds it, a
\* thread between its acquire and its unlock__ holds the lock, and the
\* registry is changed only by the thread that holds the lock.
C40_ReleasedByHolder ==
    /\ host.released.by = host.released.owner
    /\ host.modified.by = host.modified.owner
    /\ \A t \in RegThreads : in_critical(t) => threads.lock = t

\* shutdown() went on after its timed acquire failed: it cleared the
\* registry and released the lock of a thread that is still between its
\* acquire and its unlock__
C40_ShutdownReleasesForeignLock ==
    \E t, u \in RegThreads :
        /\ t # u
        /\ threads.op[t] = "shutdown"
        /\ host.modified = [by |-> t, owner |-> u]
        /\ host.released = [by |-> t, owner |-> u]
        /\ in_critical(u)
        /\ threads.lock = 0
====
